---- MODULE Spec2Model ----
(***************************************************************************)
(* Attendance time-tracking engine of the HR backend.                      *)
(*                                                                         *)
(* Instants are whole seconds on the UTC time line, as the service stores  *)
(* them; the office timezone (IST) is reached through IST_OFFSET exactly   *)
(* where the code calls astimezone(IST).  One employee is modelled; the    *)
(* attendance table is keyed by the civil date (unique_user_date).         *)
(***************************************************************************)
EXTENDS Integers, Sequences, FiniteSets, TLC

VARIABLES
    now,        \* datetime.now(timezone.utc) as read by the next request
    records,    \* attendance_logs rows of the employee, by date
    timers,     \* task_time_logs rows of the employee
    leave,      \* status of the employee's leave row covering LeaveDay
    holiday,    \* whether a Holiday row for HolidayDay applies to the employee
    marks,      \* number of admin marks performed so far
    lastOp,     \* the last request handled and what it answered
    ws,         \* attendance_ws_manager, the sockets and the event loop
    table,      \* attendance_logs with row ids, and the sessions writing it
    inflight    \* the closing requests between their row query and their commit

vars == <<now, records, timers, leave, holiday, marks, lastOp, ws, table, inflight>>

-----------------------------------------------------------------------------
(* Bounds of the model *)

MaxMarks == 1
MaxLogs == 1
MaxPending == 1
MaxRowId == 3

\* Two consecutive civil dates of the office timezone: a working day that the
\* model follows in full, and the morning of the day after.
Days == 0..1
LastDay == CHOOSE d \in Days : \A e \in Days : e <= d
Tasks == {1}

-----------------------------------------------------------------------------
(* Time *)

None == -1
DAY == 24 * 3600
HM(h, m) == h * 3600 + m * 60

IST_OFFSET == HM(5, 30)
SHIFT_START == HM(9, 0)
LATE_THRESHOLD == HM(9, 30)
SHIFT_END == HM(18, 0)
BREAK_START_HOUR == 13
BREAK_END_HOUR == 14
STANDARD_WORK_SECONDS == (825 * 3600) \div 100
HALF_DAY_MIN_SECONDS == 4 * 3600
SECOND_HALF_START == HM(14, 0)
FIRST_HALF_END == HM(13, 0)
SESSION_IDLE_TIMEOUT == 30 * 60

Max(a, b) == IF a >= b THEN a ELSE b
Min(a, b) == IF a <= b THEN a ELSE b

\* dt.astimezone(IST).date() and .time() of a UTC instant
IstDate(t) == (t + IST_OFFSET) \div DAY
IstTime(t) == (t + IST_OFFSET) % DAY
\* datetime.combine(day, time, tzinfo=IST).astimezone(utc)
AtIst(day, tod) == day * DAY + tod - IST_OFFSET

get_ist_date(t) == IstDate(t)

_break_window_utc_for_ist_date(day) ==
    <<AtIst(day, HM(BREAK_START_HOUR, 0)), AtIst(day, HM(BREAK_END_HOUR, 0))>>

_shift_end_utc_for_ist_date(day) == AtIst(day, SHIFT_END)

is_break_time_ist(t) ==
    LET hour == IstTime(t) \div 3600
    IN  BREAK_START_HOUR <= hour /\ hour < BREAK_END_HOUR

\* The instants at which requests arrive in the model.
TimesOfDay == {HM(9, 15), HM(9, 45), HM(13, 0), HM(14, 0), HM(18, 0), HM(19, 0)}
NextDayTimes == {HM(9, 15), HM(13, 0)}
Instants == {AtIst(0, tod) : tod \in TimesOfDay} \cup {AtIst(1, tod) : tod \in NextDayTimes}
\* The last_seen_at values of the sessions that present a token.
SeenTimes == {AtIst(d, tod) : d \in Days, tod \in {HM(9, 15), HM(13, 0)}}

-----------------------------------------------------------------------------
(* Interval calculator *)

RECURSIVE BreakOverlap(_, _, _, _)
BreakOverlap(current_day, last_day, clock_in, clock_out) ==
    IF current_day > last_day THEN 0
    ELSE LET w == _break_window_utc_for_ist_date(current_day)
             overlap_start == Max(clock_in, w[1])
             overlap_end == Min(clock_out, w[2])
         IN  (IF overlap_end > overlap_start THEN overlap_end - overlap_start ELSE 0)
             + BreakOverlap(current_day + 1, last_day, clock_in, clock_out)

\* calculate_work_seconds that deducts a whole break hour from a session that
\* touches a break window.
calculate_work_seconds_whole_break(clock_in, clock_out) ==
    IF clock_in = None \/ clock_out = None THEN 0
    ELSE IF clock_out <= clock_in THEN 0
    ELSE Max((clock_out - clock_in)
             - (IF BreakOverlap(IstDate(clock_in), IstDate(clock_out),
                                clock_in, clock_out) > 0
                THEN 3600 ELSE 0), 0)

\* calculate_work_seconds that deducts no break.
calculate_work_seconds_gross(clock_in, clock_out) ==
    IF clock_in = None \/ clock_out = None THEN 0
    ELSE IF clock_out <= clock_in THEN 0
    ELSE clock_out - clock_in

calculate_work_seconds(clock_in, clock_out) ==
    IF clock_in = None \/ clock_out = None THEN 0
    ELSE IF clock_out <= clock_in THEN 0
    ELSE LET total_seconds == clock_out - clock_in
             break_overlap == BreakOverlap(IstDate(clock_in), IstDate(clock_out),
                                           clock_in, clock_out)
         IN  Max(total_seconds - break_overlap, 0)

-----------------------------------------------------------------------------
(* Attendance rows *)

NoRecord ==
    [exists |-> FALSE, clock_in_time |-> None, clock_out_time |-> None,
     first_clock_in_time |-> None, total_seconds |-> 0, status |-> "none",
     overtime_hours |-> 0, half_day_type |-> "none", is_late |-> FALSE,
     manual_override |-> FALSE, is_manual_edit |-> FALSE,
     updated_by_admin_id |-> 0]

\* Attendance(user_id=..., date=...) with the column defaults
NewRecord == [NoRecord EXCEPT !.exists = TRUE]

IsOpen(att) ==
    att.exists /\ att.clock_in_time # None /\ att.clock_out_time = None

\* round(seconds / 3600, 2), held in hundredths of an hour
HoursCenti(seconds) == (seconds * 100 + 1800) \div 3600
\* int(round(hours * 3600)) of a value held in hundredths of an hour
CentiToSeconds(centi) == centi * 36

get_effective_clock_in_time(att) ==
    IF ~att.exists THEN None
    ELSE IF att.first_clock_in_time # None THEN att.first_clock_in_time
    ELSE IF att.clock_in_time # None THEN att.clock_in_time
    ELSE IF att.clock_out_time # None /\ att.total_seconds > 0
         THEN att.clock_out_time - att.total_seconds
    ELSE None

get_attendance_worked_seconds(att, d, current) ==
    IF ~att.exists THEN 0
    ELSE LET total == att.total_seconds
             today_ist == get_ist_date(current)
         IN  IF att.clock_in_time # None /\ att.clock_out_time = None /\ d = today_ist
             THEN Max(total + calculate_work_seconds(att.clock_in_time, current), 0)
             ELSE Max(total, 0)

\* calculate_overtime_seconds that measures the hours against the shift length
\* with the break left in.
calculate_overtime_seconds_gross_shift(att, d, worked_seconds, current) ==
    IF ~att.exists THEN 0
    ELSE IF att.is_manual_edit /\ att.overtime_hours > 0
         THEN CentiToSeconds(att.overtime_hours)
    ELSE Max(IF att.clock_out_time # None
             THEN Max(0, att.clock_out_time - _shift_end_utc_for_ist_date(d)) ELSE 0,
             Max(0, worked_seconds + HM(1, 0) - STANDARD_WORK_SECONDS))

\* calculate_overtime_seconds that takes clock_out_time as the only reference
\* end, also for a row that is open today.
calculate_overtime_seconds_closed_only(att, d, worked_seconds, current) ==
    IF ~att.exists THEN 0
    ELSE IF att.is_manual_edit /\ att.overtime_hours > 0
         THEN CentiToSeconds(att.overtime_hours)
    ELSE Max(IF att.clock_out_time # None
             THEN Max(0, att.clock_out_time - _shift_end_utc_for_ist_date(d)) ELSE 0,
             Max(0, worked_seconds - STANDARD_WORK_SECONDS))

calculate_overtime_seconds(att, d, worked_seconds, current) ==
    IF ~att.exists THEN 0
    ELSE IF att.is_manual_edit /\ att.overtime_hours > 0
         THEN CentiToSeconds(att.overtime_hours)
    ELSE LET reference_out ==
                 IF att.clock_in_time # None /\ att.clock_out_time = None
                    /\ d = get_ist_date(current)
                 THEN current ELSE att.clock_out_time
             overtime_by_shift_end ==
                 IF reference_out # None
                 THEN Max(0, reference_out - _shift_end_utc_for_ist_date(d))
                 ELSE 0
             overtime_by_hours == Max(0, worked_seconds - STANDARD_WORK_SECONDS)
         IN  Max(overtime_by_shift_end, overtime_by_hours)

\* determine_attendance_status whose late rule accepts an end at the shift end.
determine_attendance_status_late_at_shift_end(att, d, seconds, current) ==
    IF ~att.exists THEN [status |-> "absent", att |-> att]
    ELSE IF att.is_manual_edit /\ att.status # "none"
         THEN [status |-> att.status, att |-> att]
    ELSE LET effective_clock_in == get_effective_clock_in_time(att)
             reference_out ==
                 IF att.clock_in_time # None /\ att.clock_out_time = None
                    /\ d = get_ist_date(current)
                 THEN current ELSE att.clock_out_time
         IN  IF effective_clock_in = None THEN [status |-> "absent", att |-> att]
             ELSE IF reference_out = None THEN [status |-> "in_progress", att |-> att]
             ELSE LET start_t == IstTime(effective_clock_in)
                      end_t == IstTime(reference_out)
                  IN  IF SHIFT_START <= start_t /\ start_t <= LATE_THRESHOLD
                         /\ end_t >= SHIFT_END
                      THEN [status |-> "present", att |-> att]
                      ELSE IF start_t > LATE_THRESHOLD /\ end_t >= SHIFT_END
                      THEN [status |-> "late", att |-> att]
                      ELSE IF SHIFT_START <= start_t /\ start_t <= LATE_THRESHOLD
                              /\ FIRST_HALF_END <= end_t /\ end_t < SECOND_HALF_START
                              /\ seconds >= HALF_DAY_MIN_SECONDS
                      THEN [status |-> "halfday",
                            att |-> [att EXCEPT !.half_day_type = "first_half"]]
                      ELSE IF start_t >= SECOND_HALF_START /\ end_t >= SHIFT_END
                              /\ seconds >= HALF_DAY_MIN_SECONDS
                      THEN [status |-> "halfday",
                            att |-> [att EXCEPT !.half_day_type = "second_half"]]
                      ELSE IF seconds >= HALF_DAY_MIN_SECONDS
                      THEN [status |-> "halfday",
                            att |-> IF att.half_day_type = "none"
                                    THEN [att EXCEPT !.half_day_type =
                                            IF start_t >= SECOND_HALF_START
                                            THEN "second_half" ELSE "first_half"]
                                    ELSE att]
                      ELSE [status |-> "absent", att |-> att]

\* Returns the status and the row as the call leaves it (the classifier
\* writes half_day_type on the row it is given).
determine_attendance_status(att, d, seconds, current) ==
    IF ~att.exists THEN [status |-> "absent", att |-> att]
    ELSE IF att.is_manual_edit /\ att.status # "none"
         THEN [status |-> att.status, att |-> att]
    ELSE LET effective_clock_in == get_effective_clock_in_time(att)
             reference_out ==
                 IF att.clock_in_time # None /\ att.clock_out_time = None
                    /\ d = get_ist_date(current)
                 THEN current ELSE att.clock_out_time
         IN  IF effective_clock_in = None THEN [status |-> "absent", att |-> att]
             ELSE IF reference_out = None THEN [status |-> "in_progress", att |-> att]
             ELSE LET start_t == IstTime(effective_clock_in)
                      end_t == IstTime(reference_out)
                  IN  IF SHIFT_START <= start_t /\ start_t <= LATE_THRESHOLD
                         /\ end_t >= SHIFT_END
                      THEN [status |-> "present", att |-> att]
                      ELSE IF start_t > LATE_THRESHOLD /\ end_t > SHIFT_END
                      THEN [status |-> "late", att |-> att]
                      ELSE IF SHIFT_START <= start_t /\ start_t <= LATE_THRESHOLD
                              /\ FIRST_HALF_END <= end_t /\ end_t < SECOND_HALF_START
                              /\ seconds >= HALF_DAY_MIN_SECONDS
                      THEN [status |-> "halfday",
                            att |-> [att EXCEPT !.half_day_type = "first_half"]]
                      ELSE IF start_t >= SECOND_HALF_START /\ end_t >= SHIFT_END
                              /\ seconds >= HALF_DAY_MIN_SECONDS
                      THEN [status |-> "halfday",
                            att |-> [att EXCEPT !.half_day_type = "second_half"]]
                      ELSE IF seconds >= HALF_DAY_MIN_SECONDS
                      THEN [status |-> "halfday",
                            att |-> IF att.half_day_type = "none"
                                    THEN [att EXCEPT !.half_day_type =
                                            IF start_t >= SECOND_HALF_START
                                            THEN "second_half" ELSE "first_half"]
                                    ELSE att]
                      ELSE [status |-> "absent", att |-> att]

\* The dictionary get_attendance_status_meta builds from the worked seconds and
\* the classifier's answer det.
StatusMetaOf(att, d, current, seconds, det) ==
    [status |-> det.status,
     seconds |-> seconds,
     is_running |-> att.exists /\ att.clock_in_time # None
                    /\ att.clock_out_time = None /\ d = get_ist_date(current),
     is_late_entry |-> get_effective_clock_in_time(att) # None
                       /\ IstTime(get_effective_clock_in_time(att)) > LATE_THRESHOLD,
     overtime_seconds |-> calculate_overtime_seconds(det.att, d, seconds, current),
     half_day_type |-> det.att.half_day_type,
     effective_clock_in_time |-> get_effective_clock_in_time(att),
     att |-> det.att]

StatusMetaFor(att, d, current, seconds) ==
    StatusMetaOf(att, d, current, seconds,
                 determine_attendance_status(att, d, seconds, current))

get_attendance_status_meta(att, d, current) ==
    StatusMetaFor(att, d, current, get_attendance_worked_seconds(att, d, current))

\* The overtime write of _sync_status_fields, skipped on a manually edited row.
SyncOvertime(meta, a) ==
    IF ~a.is_manual_edit
    THEN [a EXCEPT !.overtime_hours = HoursCenti(meta.overtime_seconds)]
    ELSE a

\* The status, half_day_type and is_late writes of _sync_status_fields.
SyncFields(status, meta) ==
    SyncOvertime(meta,
                 [meta.att EXCEPT
                    !.status = status,
                    !.half_day_type = IF status # "halfday" THEN "none" ELSE @,
                    !.is_late = meta.is_late_entry \/ status = "late"])

\* det is the classifier's answer; the meta is read from the row it left.
SyncClassified(det, d, current) ==
    SyncFields(det.status, get_attendance_status_meta(det.att, d, current))

_sync_status_fields(att, d, current) ==
    SyncClassified(
        determine_attendance_status(att, d,
                                    get_attendance_worked_seconds(att, d, current),
                                    current),
        d, current)

-----------------------------------------------------------------------------
(* Task timers.  A task_time_logs row is [task, end_time]; its start_time   *)
(* is written once on insert and read by no operation modelled here.       *)

\* _close_running_tasks that ends no timer.
_close_running_tasks_skipped(tm, close_at) == tm

_close_running_tasks(tm, close_at) ==
    {IF log.end_time = None THEN [log EXCEPT !.end_time = close_at] ELSE log : log \in tm}

HasRunning(tm) == \E log \in tm : log.end_time = None

\* [db, events]: commits only when a timer was running
close_running_tasks_for_user(db, close_at) ==
    [db |-> [db EXCEPT !.timers = _close_running_tasks(db.timers, close_at)],
     events |-> IF HasRunning(db.timers) THEN <<"commit">> ELSE <<>>]

-----------------------------------------------------------------------------
(* Closing transitions.  db is [records, timers]. *)

OpenRows(db) == {d \in Days : IsOpen(db.records[d])}

\* _close_attendance with the close time capped at the shift end of the row's date.
_close_attendance_capped(db, d, close_at) ==
    LET att == db.records[d]
    IN  IF att.clock_in_time = None THEN db
        ELSE LET effective_close ==
                     Max(Min(close_at, _shift_end_utc_for_ist_date(d)),
                         att.clock_in_time)
             IN  [records |-> [db.records EXCEPT ![d] =
                                  [att EXCEPT
                                     !.total_seconds = @ + calculate_work_seconds(
                                                         att.clock_in_time, effective_close),
                                     !.clock_out_time = effective_close,
                                     !.clock_in_time = None]],
                  timers |-> _close_running_tasks(db.timers, effective_close)]

\* _close_attendance that adds the worked seconds and leaves the session open.
_close_attendance_left_open(db, d, close_at) ==
    LET att == db.records[d]
    IN  IF att.clock_in_time = None THEN db
        ELSE [db EXCEPT !.records[d].total_seconds =
                 @ + calculate_work_seconds(att.clock_in_time,
                                            Max(close_at, att.clock_in_time))]

\* _close_attendance that closes at close_at even when the session was opened
\* after it.
_close_attendance_at_boundary(db, d, close_at) ==
    LET att == db.records[d]
    IN  IF att.clock_in_time = None THEN db
        ELSE [records |-> [db.records EXCEPT ![d] =
                             _sync_status_fields(
                                [att EXCEPT
                                   !.total_seconds = @ + calculate_work_seconds(
                                                       att.clock_in_time, close_at),
                                   !.clock_out_time = close_at,
                                   !.clock_in_time = None], d, close_at)],
              timers |-> _close_running_tasks(db.timers, close_at)]

\* _close_attendance that clears first_clock_in_time with clock_in_time.
_close_attendance_forgets_first(db, d, close_at) ==
    LET att == db.records[d]
    IN  IF att.clock_in_time = None THEN db
        ELSE LET effective_close == Max(close_at, att.clock_in_time)
                 closed == [att EXCEPT
                              !.total_seconds = @ + calculate_work_seconds(
                                                      att.clock_in_time, effective_close),
                              !.clock_out_time = effective_close,
                              !.clock_in_time = None,
                              !.first_clock_in_time = None]
             IN  [records |-> [db.records EXCEPT
                                 ![d] = _sync_status_fields(closed, d, effective_close)],
                  timers |-> _close_running_tasks(db.timers, effective_close)]

\* _close_attendance that stores the seconds of the last session alone.
_close_attendance_last_session(db, d, close_at) ==
    LET att == db.records[d]
    IN  IF att.clock_in_time = None THEN db
        ELSE LET effective_close == Max(close_at, att.clock_in_time)
                 closed == [att EXCEPT
                              !.total_seconds = calculate_work_seconds(
                                                    att.clock_in_time, effective_close),
                              !.clock_out_time = effective_close,
                              !.clock_in_time = None]
             IN  [records |-> [db.records EXCEPT
                                 ![d] = _sync_status_fields(closed, d, effective_close)],
                  timers |-> _close_running_tasks(db.timers, effective_close)]

_close_attendance(db, d, close_at) ==
    LET att == db.records[d]
    IN  IF att.clock_in_time = None THEN db
        ELSE LET effective_close == Max(close_at, att.clock_in_time)
                 closed == [att EXCEPT
                              !.total_seconds = @ + calculate_work_seconds(
                                                      att.clock_in_time, effective_close),
                              !.clock_out_time = effective_close,
                              !.clock_in_time = None]
             IN  [records |-> [db.records EXCEPT
                                 ![d] = _sync_status_fields(closed, d, effective_close)],
                  timers |-> _close_running_tasks(db.timers, effective_close)]

\* Rows are visited in date order; the query of the source states no order.
RECURSIVE CloseRows(_, _, _, _)
CloseRows(d, rows, db, close_at) ==
    IF d > LastDay THEN db
    ELSE CloseRows(d + 1, rows,
                   IF d \in rows THEN _close_attendance(db, d, close_at) ELSE db,
                   close_at)

\* [db, closed, events]
close_open_attendances_for_user(db, close_at) ==
    IF OpenRows(db) # {}
    THEN [db |-> CloseRows(0, OpenRows(db), db, close_at),
          closed |-> Cardinality(OpenRows(db)),
          events |-> <<"commit", "notify">>]
    ELSE [db |-> close_running_tasks_for_user(db, close_at).db, closed |-> 0,
          events |-> close_running_tasks_for_user(db, close_at).events]

\* auto_close_if_needed without its shift-end branch.
auto_close_without_shift_end(db, d, current) ==
    LET att == db.records[d]
    IN  IF ~att.exists \/ att.clock_in_time = None THEN [closed |-> FALSE, db |-> db]
        ELSE LET local_day == IstDate(att.clock_in_time)
                 break_start == _break_window_utc_for_ist_date(local_day)[1]
             IN  IF local_day < IstDate(current)
                 THEN [closed |-> TRUE,
                       db |-> _close_attendance(db, d,
                                                _shift_end_utc_for_ist_date(local_day))]
                 ELSE IF att.clock_in_time < break_start /\ break_start <= current
                 THEN [closed |-> TRUE, db |-> _close_attendance(db, d, break_start)]
                 ELSE [closed |-> FALSE, db |-> db]

\* auto_close_if_needed without its break-start branch.
auto_close_without_break(db, d, current) ==
    LET att == db.records[d]
    IN  IF ~att.exists \/ att.clock_in_time = None THEN [closed |-> FALSE, db |-> db]
        ELSE LET local_day == IstDate(att.clock_in_time)
                 shift_end == _shift_end_utc_for_ist_date(local_day)
             IN  IF local_day < IstDate(current) \/ (att.clock_in_time < shift_end
                                                     /\ shift_end <= current)
                 THEN [closed |-> TRUE, db |-> _close_attendance(db, d, shift_end)]
                 ELSE [closed |-> FALSE, db |-> db]

\* auto_close_if_needed that closes at the request time a session that has
\* crossed no boundary.
auto_close_eager(db, d, current) ==
    LET att == db.records[d]
    IN  IF ~att.exists \/ att.clock_in_time = None THEN [closed |-> FALSE, db |-> db]
        ELSE LET local_day == IstDate(att.clock_in_time)
                 break_start == _break_window_utc_for_ist_date(local_day)[1]
                 shift_end == _shift_end_utc_for_ist_date(local_day)
             IN  [closed |-> TRUE,
                  db |-> _close_attendance(db, d,
                            IF local_day < IstDate(current) THEN shift_end
                            ELSE IF att.clock_in_time < break_start /\ break_start <= current
                            THEN break_start
                            ELSE IF att.clock_in_time < shift_end /\ shift_end <= current
                            THEN shift_end
                            ELSE current)]

\* auto_close_if_needed that closes a row of an earlier date at the time of
\* the sweep.
auto_close_stale_at_now(db, d, current) ==
    LET att == db.records[d]
    IN  IF ~att.exists \/ att.clock_in_time = None THEN [closed |-> FALSE, db |-> db]
        ELSE LET now_ist_date == IstDate(current)
                 clock_in_utc == att.clock_in_time
                 local_day == IstDate(clock_in_utc)
                 break_start == _break_window_utc_for_ist_date(local_day)[1]
                 shift_end == _shift_end_utc_for_ist_date(local_day)
             IN  IF local_day < now_ist_date
                 THEN [closed |-> TRUE, db |-> _close_attendance(db, d, current)]
                 ELSE IF clock_in_utc < break_start /\ break_start <= current
                 THEN [closed |-> TRUE, db |-> _close_attendance(db, d, break_start)]
                 ELSE IF clock_in_utc < shift_end /\ shift_end <= current
                 THEN [closed |-> TRUE, db |-> _close_attendance(db, d, shift_end)]
                 ELSE [closed |-> FALSE, db |-> db]

\* [closed, db]: the boundary at which the row is closed, if any
auto_close_if_needed(db, d, current) ==
    LET att == db.records[d]
    IN  IF ~att.exists \/ att.clock_in_time = None THEN [closed |-> FALSE, db |-> db]
        ELSE LET now_ist_date == IstDate(current)
                 clock_in_utc == att.clock_in_time
                 local_day == IstDate(clock_in_utc)
                 break_start == _break_window_utc_for_ist_date(local_day)[1]
                 shift_end == _shift_end_utc_for_ist_date(local_day)
             IN  IF local_day < now_ist_date
                 THEN [closed |-> TRUE, db |-> _close_attendance(db, d, shift_end)]
                 ELSE IF clock_in_utc < break_start /\ break_start <= current
                 THEN [closed |-> TRUE, db |-> _close_attendance(db, d, break_start)]
                 ELSE IF clock_in_utc < shift_end /\ shift_end <= current
                 THEN [closed |-> TRUE, db |-> _close_attendance(db, d, shift_end)]
                 ELSE [closed |-> FALSE, db |-> db]

\* AutoCloseStep that commits a close and notifies nobody.
AutoCloseStep_unannounced(acc, r) ==
    IF r.closed
    THEN [db |-> r.db, closed |-> acc.closed + 1,
          events |-> acc.events \o <<"commit">>]
    ELSE acc

\* acc is [db, closed, events]; every close commits and then notifies
AutoCloseStep(acc, r) ==
    IF r.closed
    THEN [db |-> r.db, closed |-> acc.closed + 1,
          events |-> acc.events \o <<"commit", "notify">>]
    ELSE acc

RECURSIVE AutoCloseRows(_, _, _, _)
AutoCloseRows(d, rows, acc, current) ==
    IF d > LastDay THEN acc
    ELSE IF d \notin rows THEN AutoCloseRows(d + 1, rows, acc, current)
    ELSE AutoCloseRows(d + 1, rows,
                       AutoCloseStep(acc, auto_close_if_needed(acc.db, d, current)),
                       current)

auto_close_open_attendances_for_user(db, current) ==
    AutoCloseRows(0, OpenRows(db), [db |-> db, closed |-> 0, events |-> <<>>], current)

-----------------------------------------------------------------------------
(* Calendar collaborators *)

HolidayDay == 0
LeaveDay == 0

_is_holiday_for_user(target_date) == holiday /\ target_date = HolidayDay

_leave_status_for_date(target_date) ==
    IF leave = "none" \/ target_date # LeaveDay THEN "none"
    ELSE IF leave = "approved" THEN "leave"
    ELSE "absent"

\* _upsert_non_working_attendance that writes the status and keeps the times.
_upsert_non_working_keeps_times(recs, target_date, status) ==
    [recs EXCEPT ![target_date] =
        [IF recs[target_date].exists THEN recs[target_date] ELSE NewRecord
            EXCEPT !.status = status, !.total_seconds = 0,
                   !.is_manual_edit = FALSE, !.manual_override = FALSE]]

_upsert_non_working_attendance(recs, target_date, status) ==
    LET att == IF recs[target_date].exists THEN recs[target_date] ELSE NewRecord
    IN  [recs EXCEPT ![target_date] =
            [att EXCEPT !.clock_in_time = None, !.clock_out_time = None,
                        !.first_clock_in_time = None, !.total_seconds = 0,
                        !.half_day_type = "none", !.is_late = FALSE,
                        !.status = status, !.is_manual_edit = FALSE,
                        !.manual_override = FALSE]]

\* get_clock_in_lock_reason that tests the break before the calendar.
get_clock_in_lock_reason_break_first(current) ==
    LET today == IstDate(current)
        leave_status == _leave_status_for_date(today)
    IN  IF is_break_time_ist(current) THEN "break"
        ELSE IF _is_holiday_for_user(today) THEN "holiday"
        ELSE IF leave_status = "leave" THEN "leave"
        ELSE IF leave_status = "absent" THEN "unapproved_leave"
        ELSE "none"

get_clock_in_lock_reason(current) ==
    LET today == IstDate(current)
        leave_status == _leave_status_for_date(today)
    IN  IF _is_holiday_for_user(today) THEN "holiday"
        ELSE IF leave_status = "leave" THEN "leave"
        ELSE IF leave_status = "absent" THEN "unapproved_leave"
        ELSE IF is_break_time_ist(current) THEN "break"
        ELSE "none"

-----------------------------------------------------------------------------
(* Admin manual mark *)

AdminId == 1

compute_total_seconds(clock_in_time, clock_out_time) ==
    IF clock_in_time = None \/ clock_out_time = None THEN 0
    ELSE IF clock_out_time <= clock_in_time THEN 0
    ELSE calculate_work_seconds(clock_in_time, clock_out_time)

\* <<status, half_day_type, is_late>>
infer_status_from_clock_times(clock_in_time, clock_out_time, total_seconds) ==
    LET late == clock_in_time # None /\ IstTime(clock_in_time) > HM(9, 30)
    IN  IF clock_in_time # None /\ clock_out_time # None /\ total_seconds < 4 * 3600
        THEN <<"halfday",
               IF IstTime(clock_in_time) \div 3600 < 13 THEN "first_half" ELSE "second_half",
               FALSE>>
        ELSE IF clock_in_time # None
        THEN <<IF late THEN "late" ELSE "present", "none", late>>
        ELSE <<"absent", "none", late>>

\* The payloads the admin sends in the model; times are HH:MM on the target date.
MarkPayloads ==
    {[status |-> "present", clock_in_time |-> None, clock_out_time |-> None,
      half_day_type |-> "none", overtime_hours |-> None],
     [status |-> "present", clock_in_time |-> None, clock_out_time |-> None,
      half_day_type |-> "none", overtime_hours |-> 0],
     [status |-> "present", clock_in_time |-> None, clock_out_time |-> None,
      half_day_type |-> "none", overtime_hours |-> 200],
     [status |-> "absent", clock_in_time |-> None, clock_out_time |-> None,
      half_day_type |-> "none", overtime_hours |-> None],
     [status |-> "halfday", clock_in_time |-> HM(10, 0), clock_out_time |-> None,
      half_day_type |-> "none", overtime_hours |-> None]}

\* parse_time_on_date for an HH:MM value
parse_time_on_date(target_date, value) ==
    IF value = None THEN None ELSE AtIst(target_date, value)

\* The payload's fields written on the row, and the audit columns.
MarkFields(a, payload, clock_in_time, clock_out_time) ==
    [a EXCEPT !.status = payload.status,
              !.clock_in_time = clock_in_time,
              !.clock_out_time = clock_out_time,
              !.half_day_type = IF payload.status = "halfday" THEN payload.half_day_type
                                ELSE "none",
              !.manual_override = TRUE,
              !.is_manual_edit = TRUE,
              !.updated_by_admin_id = AdminId]

\* The default times of a half-day mark that names neither time.
MarkHalfDay(a, target_date, h) ==
    IF a.clock_in_time = None /\ a.clock_out_time = None
    THEN IF h = "second_half"
         THEN [a EXCEPT !.half_day_type = h,
                        !.clock_in_time = AtIst(target_date, HM(14, 0)),
                        !.clock_out_time = AtIst(target_date, HM(18, 30))]
         ELSE [a EXCEPT !.half_day_type = h,
                        !.clock_in_time = AtIst(target_date, HM(9, 0)),
                        !.clock_out_time = AtIst(target_date, HM(13, 0))]
    ELSE [a EXCEPT !.half_day_type = h]

\* The times the requested status implies.
MarkTimes(a, target_date, status) ==
    IF status \in {"absent", "leave", "holiday"}
    THEN [a EXCEPT !.clock_in_time = None, !.clock_out_time = None,
                   !.total_seconds = 0, !.half_day_type = "none",
                   !.is_late = FALSE]
    ELSE IF status = "halfday"
    THEN MarkHalfDay(a, target_date,
                     IF a.half_day_type = "none" THEN "first_half" ELSE a.half_day_type)
    ELSE [a EXCEPT
            !.clock_in_time = IF @ = None THEN AtIst(target_date, HM(9, 0)) ELSE @,
            !.clock_out_time = IF @ = None THEN AtIst(target_date, HM(18, 30)) ELSE @]

MarkTotals(a) ==
    [a EXCEPT !.total_seconds = compute_total_seconds(a.clock_in_time, a.clock_out_time)]

\* The status the row ends with: inferred from the times on a working status.
MarkStatus(a, status, inf) ==
    IF status \notin {"absent", "leave", "holiday"}
    THEN [a EXCEPT !.status = inf[1],
                   !.half_day_type =
                       IF inf[1] = "halfday"
                       THEN (IF inf[2] # "none" THEN inf[2]
                             ELSE IF @ # "none" THEN @ ELSE "first_half")
                       ELSE "none",
                   !.is_late = inf[3]]
    ELSE [a EXCEPT !.status = status, !.is_late = FALSE]

MarkInferred(a, status) ==
    MarkStatus(a, status,
               infer_status_from_clock_times(a.clock_in_time, a.clock_out_time,
                                             a.total_seconds))

MarkOvertime(a, target_date, overtime, current) ==
    [a EXCEPT !.overtime_hours =
        IF overtime # None THEN overtime
        ELSE HoursCenti(calculate_overtime_seconds(a, target_date, a.total_seconds,
                                                   current))]

\* The row that mark_attendance commits for target_date.
MarkedRow(old, target_date, payload, current) ==
    MarkOvertime(
        MarkInferred(
            MarkTotals(
                MarkTimes(
                    MarkFields(IF old.exists THEN old ELSE NewRecord, payload,
                               parse_time_on_date(target_date, payload.clock_in_time),
                               parse_time_on_date(target_date, payload.clock_out_time)),
                    target_date, payload.status)),
            payload.status),
        target_date, payload.overtime_hours, current)

-----------------------------------------------------------------------------
(* Change notifier.  ws is the AttendanceConnectionManager together with the *)
(* sockets it was handed: socket[c] is "free" before the connection is made, *)
(* "connected" while its handler waits in receive_text, "dead" once the peer *)
(* is gone (a send raises) and "closed" after the handler has returned.      *)
(* tasks are the coroutines scheduled on the loop, sends the sockets written *)
(* in the last step and the context that wrote them.                         *)

Users == {1}
Employee == CHOOSE u \in Users : TRUE
\* Connections to /ws/attendance/{user_id} of the employee, and to the stream.
UserConns == {1, 2}
StreamConns == {3}
Conns == UserConns \cup StreamConns
NoConn == 0

NoNotifier ==
    [loop |-> "none",
     active_connections |-> [u \in Users |-> NoConn],
     stream_connections |-> {},
     socket |-> [c \in Conns |-> "free"],
     tasks |-> <<>>,
     sends |-> {}]

connect(w, user_id, c) ==
    [w EXCEPT !.socket[c] = "connected", !.loop = "running",
              !.active_connections[user_id] = c, !.sends = {}]

disconnect(w, user_id) == [w EXCEPT !.active_connections[user_id] = NoConn]

connect_stream(w, c) ==
    [w EXCEPT !.socket[c] = "connected", !.loop = "running",
              !.stream_connections = @ \cup {c}, !.sends = {}]

disconnect_stream(w, c) == [w EXCEPT !.stream_connections = @ \ {c}]

\* notify_attendance_change_threadsafe that schedules without testing the loop.
notify_threadsafe_unchecked(w, user_id) ==
    IF w.loop # "running" THEN [ws |-> w, raised |-> TRUE]
    ELSE [ws |-> [w EXCEPT !.tasks = Append(@, [user |-> user_id, pc |-> "notify"])],
          raised |-> FALSE]

\* notify_attendance_change_threadsafe that delivers on the calling thread.
notify_threadsafe_inline(w, user_id) ==
    [ws |-> [w EXCEPT !.sends =
                @ \cup {[conn |-> c, on |-> "caller"] :
                          c \in {d \in Conns : /\ w.socket[d] = "connected"
                                               /\ \/ d = w.active_connections[user_id]
                                                  \/ d \in w.stream_connections}}],
     raised |-> FALSE]

\* [ws, raised]: the manager after the call, and whether the call raised
notify_attendance_change_threadsafe(w, user_id) ==
    IF w.loop # "running" THEN [ws |-> w, raised |-> FALSE]
    ELSE [ws |-> [w EXCEPT !.tasks = Append(@, [user |-> user_id, pc |-> "notify"])],
          raised |-> FALSE]

-----------------------------------------------------------------------------
(* Requests *)

DB == [records |-> records, timers |-> timers]

NotifyCount(events) == Cardinality({i \in DOMAIN events : events[i] = "notify"})

\* The notifier after a request has called _notify_attendance_state_change n
\* times, starting from a request that has sent nothing itself.
RECURSIVE NotifyTimes(_, _)
NotifyTimes(r, n) ==
    IF n = 0 \/ r.raised THEN r
    ELSE NotifyTimes(notify_attendance_change_threadsafe(r.ws, Employee), n - 1)

AfterNotify(events) ==
    NotifyTimes([ws |-> [ws EXCEPT !.sends = {}], raised |-> FALSE], NotifyCount(events))

\* The notifier as the request leaves it; at most MaxPending deliveries wait
\* on the loop.
Notified ==
    /\ Len(AfterNotify(lastOp'.events).ws.tasks) <= MaxPending
    /\ ws' = AfterNotify(lastOp'.events).ws

\* What a route answers; an exception out of the notifier would surface as an
\* internal error after the commit.
Answer(op, result, swept, events) ==
    [op |-> op,
     result |-> IF AfterNotify(events).raised THEN "InternalError" ELSE result,
     swept |-> swept, events |-> events,
     is_running |-> FALSE, worked_seconds |-> 0, lock_reason |-> "none",
     report |-> [d \in Days |-> "none"]]

\* attendance_logs as concurrent sessions see it: the committed rows with
\* their primary keys, the id sequence, and for each request in flight the row
\* its query returned.
Sessions == {"clock_in", "mark", "holiday"}

NoRow == 0

Missing == [id |-> NoRow, date |-> 0, clocked |-> FALSE]

Idle == [pc |-> "idle", op |-> "none", date |-> 0, existing |-> Missing]

NoTable == [rows |-> {}, last_id |-> 0, sessions |-> [s \in Sessions |-> Idle]]

\* The requests that may close a session side by side, and a request that has
\* loaded no row.
Closers == {1, 2}

NoRequest == [pc |-> "idle", op |-> "none", date |-> 0, at |-> None, row |-> NoRecord]

Init ==
    /\ now = AtIst(0, HM(9, 15))
    /\ records = [d \in Days |-> NoRecord]
    /\ timers = {}
    /\ leave \in {"none", "approved"}
    /\ holiday \in BOOLEAN
    /\ marks = 0
    /\ ws = NoNotifier
    /\ table = NoTable
    /\ inflight = [s \in Closers |-> NoRequest]
    /\ lastOp = Answer("none", "none", 0, <<>>)

\* Time passes between requests.
Tick ==
    /\ \E t \in Instants : t > now /\ now' = t
    /\ lastOp' = Answer("none", "none", 0, <<>>)
    /\ UNCHANGED <<records, timers, leave, holiday, marks>>
    /\ UNCHANGED <<table, inflight>>
    /\ Notified

\* The idle branch of get_current_user; r is what the close returned.
IdleClose(r) ==
    /\ records' = r.db.records
    /\ timers' = r.db.timers
    /\ lastOp' = Answer("get_current_user", "idle", r.closed, r.events \o <<"commit">>)

\* The session dependency of every authenticated route.  seen is the
\* last_seen_at of the session presenting the token; a session seen within the
\* idle timeout changes nothing but its own last_seen_at.
GetCurrentUser ==
    \E seen \in SeenTimes :
        /\ seen <= now
        /\ IF now - seen > SESSION_IDLE_TIMEOUT
           THEN IdleClose(close_open_attendances_for_user(DB, seen + SESSION_IDLE_TIMEOUT))
           ELSE /\ lastOp' = Answer("get_current_user", "ok", 0, <<"commit">>)
                /\ UNCHANGED <<records, timers>>
        /\ UNCHANGED <<now, leave, holiday, marks>>
        /\ UNCHANGED <<table, inflight>>
        /\ Notified

\* The break test with the first hour of the break left out.
ClockInBreakBlocked_late_start(current) ==
    BREAK_START_HOUR < IstTime(current) \div 3600
    /\ IstTime(current) \div 3600 < BREAK_END_HOUR

\* The break test of clock_in, on the hour of the office clock.
ClockInBreakBlocked(current) ==
    BREAK_START_HOUR <= IstTime(current) \div 3600
    /\ IstTime(current) \div 3600 < BREAK_END_HOUR

\* OpenedRecord that stamps first_clock_in_time on every clock-in.
OpenedRecord_restamped(attendance, today, current) ==
    LET late == IstTime(current) > LATE_THRESHOLD
        base == IF attendance.exists THEN attendance ELSE NewRecord
    IN  [base EXCEPT !.clock_in_time = current,
                     !.clock_out_time = None,
                     !.first_clock_in_time = current,
                     !.is_manual_edit = FALSE,
                     !.manual_override = FALSE,
                     !.status = IF late THEN "late" ELSE "present"]

\* The row a successful clock_in commits: a fresh row, or today's row reopened.
OpenedRecord(attendance, today, current) ==
    LET late == IstTime(current) > LATE_THRESHOLD
    IN  IF ~attendance.exists
        THEN [NewRecord EXCEPT
                !.clock_in_time = current,
                !.first_clock_in_time = current,
                !.total_seconds = 0,
                !.status = IF late THEN "late" ELSE "present",
                !.is_late = late,
                !.overtime_hours = 0]
        ELSE _sync_status_fields(
                [attendance EXCEPT
                   !.clock_in_time = current,
                   !.clock_out_time = None,
                   !.first_clock_in_time = IF @ = None THEN current ELSE @,
                   !.is_manual_edit = FALSE,
                   !.manual_override = FALSE,
                   !.updated_by_admin_id = 0,
                   !.status = IF late THEN "late" ELSE "present"],
                today, current)

\* clock_in after its sweep sw, on the office date today.
ClockInSwept(sw, today, leave_status) ==
    /\ timers' = sw.db.timers
    /\ UNCHANGED <<now, leave, holiday, marks>>
    /\ IF _is_holiday_for_user(today)
       THEN /\ records' = _upsert_non_working_attendance(sw.db.records, today, "holiday")
            /\ lastOp' = Answer("clock_in", "Holiday", sw.closed,
                                sw.events \o <<"commit", "notify">>)
       ELSE IF leave_status # "none"
       THEN /\ records' = _upsert_non_working_attendance(sw.db.records, today,
                                                         leave_status)
            /\ lastOp' = Answer("clock_in",
                                IF leave_status = "leave" THEN "Leave"
                                ELSE "LeaveUnapproved",
                                sw.closed, sw.events \o <<"commit", "notify">>)
       ELSE IF ClockInBreakBlocked(now)
       THEN /\ records' = sw.db.records
            /\ lastOp' = Answer("clock_in", "BreakTime", sw.closed, sw.events)
       ELSE IF sw.db.records[today].exists /\ sw.db.records[today].clock_in_time # None
       THEN /\ records' = sw.db.records
            /\ lastOp' = Answer("clock_in", "AlreadyClockedIn", sw.closed, sw.events)
       ELSE /\ records' = [sw.db.records EXCEPT ![today] =
                             OpenedRecord(sw.db.records[today], today, now)]
            /\ lastOp' = Answer("clock_in", "ok", sw.closed,
                                sw.events \o <<"commit", "notify">>)
    /\ UNCHANGED <<table, inflight>>
    /\ Notified

ClockIn ==
    ClockInSwept(auto_close_open_attendances_for_user(DB, now), IstDate(now),
                 _leave_status_for_date(IstDate(now)))

\* The open row clock_out_route hands to clock_out: the latest by date.
LatestOpen(db) == CHOOSE d \in OpenRows(db) : \A e \in OpenRows(db) : e <= d

\* clock_out_route without its "Already clocked out" answer.
clock_out_route_always_refuses(today_attendance) == "NotClockedIn"

\* What clock_out_route answers when it finds no open row.
clock_out_route_no_open(today_attendance) ==
    IF today_attendance.exists /\ today_attendance.clock_out_time # None
    THEN "AlreadyClockedOut" ELSE "NotClockedIn"

\* The commit of a clock_out that found an open row; db2 is the closed state.
ClockOutClosed(sw, db2) ==
    /\ records' = db2.records
    /\ timers' = db2.timers
    /\ lastOp' = Answer("clock_out", "ok", sw.closed, sw.events \o <<"commit", "notify">>)

\* clock_out_route after its sweep sw.
ClockOutSwept(sw, today) ==
    /\ UNCHANGED <<now, leave, holiday, marks>>
    /\ IF OpenRows(sw.db) = {}
       THEN /\ records' = sw.db.records
            /\ timers' = sw.db.timers
            /\ lastOp' = Answer("clock_out",
                                clock_out_route_no_open(sw.db.records[today]),
                                sw.closed, sw.events)
       ELSE ClockOutClosed(sw, _close_attendance(sw.db, LatestOpen(sw.db), now))
    /\ UNCHANGED <<table, inflight>>
    /\ Notified

ClockOut ==
    ClockOutSwept(auto_close_open_attendances_for_user(DB, now), get_ist_date(now))

\* active_attendance after its sweep sw; attendance is today's row.
ActiveAnswer(sw, attendance, today) ==
    [Answer("get_active", "ok", sw.closed, sw.events) EXCEPT
        !.lock_reason = get_clock_in_lock_reason(now),
        !.worked_seconds = get_attendance_worked_seconds(attendance, today, now),
        !.is_running = attendance.exists /\ attendance.clock_in_time # None
                       /\ attendance.clock_out_time = None]

GetActiveSwept(sw, today) ==
    /\ records' = sw.db.records
    /\ timers' = sw.db.timers
    /\ lastOp' = ActiveAnswer(sw, sw.db.records[today], today)
    /\ UNCHANGED <<now, leave, holiday, marks>>
    /\ UNCHANGED <<table, inflight>>
    /\ Notified

GetActive ==
    GetActiveSwept(auto_close_open_attendances_for_user(DB, now), get_ist_date(now))

LogoutClosed(r) ==
    /\ records' = r.db.records
    /\ timers' = r.db.timers
    /\ lastOp' = Answer("logout", "ok", r.closed, r.events \o <<"commit">>)
    /\ UNCHANGED <<now, leave, holiday, marks>>
    /\ UNCHANGED <<table, inflight>>
    /\ Notified

Logout == LogoutClosed(close_open_attendances_for_user(DB, now))

\* mark_attendance with its payload drawn from payloads.
Mark(payloads) ==
    /\ marks < MaxMarks
    /\ \E d \in Days, payload \in payloads :
            /\ records' = [records EXCEPT ![d] = MarkedRow(records[d], d, payload, now)]
            /\ lastOp' = Answer("mark_attendance", "ok", 0, <<"commit", "notify">>)
    /\ marks' = marks + 1
    /\ UNCHANGED <<now, timers, leave, holiday>>
    /\ UNCHANGED <<table, inflight>>
    /\ Notified

MarkAttendance == Mark(MarkPayloads)

ApplyLeave ==
    /\ leave = "none"
    /\ leave' = "pending"
    /\ lastOp' = Answer("apply_leave", "ok", 0, <<"commit">>)
    /\ UNCHANGED <<now, records, timers, holiday, marks>>
    /\ UNCHANGED <<table, inflight>>
    /\ Notified

\* start_task after its sweep sw; attendance is the row of now.date(), the UTC
\* civil date.
StartTaskSwept(task_id, sw, attendance) ==
    /\ records' = sw.db.records
    /\ UNCHANGED <<now, leave, holiday, marks>>
    /\ IF is_break_time_ist(now)
       THEN /\ timers' = sw.db.timers
            /\ lastOp' = Answer("start_task", "BreakTime", sw.closed, sw.events)
       ELSE IF ~(attendance.exists /\ attendance.clock_in_time # None)
       THEN /\ timers' = sw.db.timers
            /\ lastOp' = Answer("start_task", "NotClockedIn", sw.closed, sw.events)
       ELSE IF \E log \in sw.db.timers : log.end_time = None /\ log.task = task_id
       THEN /\ timers' = sw.db.timers
            /\ lastOp' = Answer("start_task", "AlreadyRunning", sw.closed, sw.events)
       ELSE /\ Cardinality(sw.db.timers) < MaxLogs
            /\ timers' = _close_running_tasks(sw.db.timers, now)
                             \cup {[task |-> task_id, end_time |-> None]}
            /\ lastOp' = Answer("start_task", "ok", sw.closed, sw.events \o <<"commit">>)
    /\ UNCHANGED <<table, inflight>>
    /\ Notified

StartTaskRow(task_id, sw, today) ==
    StartTaskSwept(task_id, sw, IF today \in Days THEN sw.db.records[today] ELSE NoRecord)

StartTask ==
    \E task_id \in Tasks :
        StartTaskRow(task_id, auto_close_open_attendances_for_user(DB, now), now \div DAY)

StopTask ==
    \E task_id \in Tasks :
        /\ IF \E log \in timers : log.task = task_id /\ log.end_time = None
           THEN /\ timers' = {IF log.task = task_id /\ log.end_time = None
                              THEN [log EXCEPT !.end_time = now] ELSE log : log \in timers}
                /\ lastOp' = Answer("stop_task", "ok", 0, <<"commit">>)
           ELSE /\ timers' = timers
                /\ lastOp' = Answer("stop_task", "NoRunningTimer", 0, <<>>)
        /\ UNCHANGED <<now, records, leave, holiday, marks>>
        /\ UNCHANGED <<table, inflight>>
        /\ Notified

Next ==
    \/ Tick
    \/ GetCurrentUser
    \/ ClockIn
    \/ ClockOut
    \/ GetActive
    \/ Logout
    \/ MarkAttendance
    \/ ApplyLeave

Spec == Init /\ [][Next]_vars

\* The employee's own requests on an ordinary working calendar, with the task
\* timers running.
InitTasks == Init /\ leave = "none" /\ ~holiday

NextTasks ==
    \/ Tick
    \/ GetCurrentUser
    \/ ClockIn
    \/ ClockOut
    \/ GetActive
    \/ Logout
    \/ StartTask
    \/ StopTask

SpecTasks == InitTasks /\ [][NextTasks]_vars

\* The employee's task timers next to the requests that rewrite the
\* attendance row of a day: the admin mark and the clock-in on a leave day.
NextTimers ==
    \/ Tick
    \/ ClockIn
    \/ StartTask
    \/ MarkAttendance
    \/ ApplyLeave

SpecTimers == InitTasks /\ [][NextTimers]_vars

-----------------------------------------------------------------------------
(* Read paths.  Each sweeps and then reports a status for every date.       *)

\* The dates the month's holiday lookup returns, and the month's approved
\* leaves by date.
HolidayDates == IF holiday THEN {HolidayDay} ELSE {}

ApprovedLeaveStatus(d) ==
    IF leave = "approved" /\ d = LeaveDay THEN "leave" ELSE "none"

\* The status attendance_history reports for date d, whose row is row.
history_status(row, d, current) ==
    IF d \in HolidayDates THEN "holiday"
    ELSE IF ApprovedLeaveStatus(d) # "none" THEN ApprovedLeaveStatus(d)
    ELSE get_attendance_status_meta(row, d, current).status

\* The status of the admin views for date d, whose row is row.
get_effective_day_status(row, d, current) ==
    IF row.exists /\ row.is_manual_edit /\ row.status # "none" THEN row.status
    ELSE IF d \in HolidayDates THEN "holiday"
    ELSE IF ApprovedLeaveStatus(d) # "none" THEN ApprovedLeaveStatus(d)
    ELSE get_attendance_status_meta(row, d, current).status

ReadSwept(op, sw, report) ==
    /\ records' = sw.db.records
    /\ timers' = sw.db.timers
    /\ lastOp' = [Answer(op, "ok", sw.closed, sw.events) EXCEPT !.report = report]
    /\ UNCHANGED <<now, leave, holiday, marks>>
    /\ UNCHANGED <<table, inflight>>
    /\ Notified

HistorySwept(sw) ==
    ReadSwept("get_history", sw,
              [d \in Days |-> history_status(sw.db.records[d], d, now)])

GetHistory == HistorySwept(auto_close_open_attendances_for_user(DB, now))

MonthlySwept(sw) ==
    ReadSwept("get_monthly_attendance", sw,
              [d \in Days |-> get_effective_day_status(sw.db.records[d], d, now)])

GetMonthlyAttendance == MonthlySwept(auto_close_open_attendances_for_user(DB, now))

DetailsSwept(sw, target_date) ==
    ReadSwept("get_attendance_details", sw,
              [d \in Days |->
                  IF d = target_date
                  THEN get_effective_day_status(sw.db.records[d], d, now)
                  ELSE "none"])

GetAttendanceDetails ==
    \E target_date \in Days :
        DetailsSwept(auto_close_open_attendances_for_user(DB, now), target_date)

\* The marks an admin sends to override a day: present with no times, present
\* with an hour of work, and absent.
OverridePayloads ==
    {[status |-> "present", clock_in_time |-> None, clock_out_time |-> None,
      half_day_type |-> "none", overtime_hours |-> None],
     [status |-> "present", clock_in_time |-> HM(10, 0), clock_out_time |-> HM(11, 0),
      half_day_type |-> "none", overtime_hours |-> None],
     [status |-> "absent", clock_in_time |-> None, clock_out_time |-> None,
      half_day_type |-> "none", overtime_hours |-> None]}

MarkOverride == Mark(OverridePayloads)

NextReads ==
    \/ Tick
    \/ ClockIn
    \/ ClockOut
    \/ MarkOverride
    \/ GetHistory
    \/ GetMonthlyAttendance
    \/ GetAttendanceDetails

SpecReads == Init /\ [][NextReads]_vars

-----------------------------------------------------------------------------
(* Notifier steps: the websocket handlers and the coroutines on the loop.   *)

\* A step of the loop that is no route request.
LoopStep(op, result) ==
    /\ lastOp' = Answer(op, result, 0, <<>>)
    /\ UNCHANGED <<now, records, timers, leave, holiday, marks, table, inflight>>

\* A client opens /ws/attendance/{user_id} for the employee.
Connect ==
    /\ ws.loop # "closed"
    /\ \E c \in UserConns :
          /\ ws.socket[c] = "free"
          /\ ws' = connect(ws, Employee, c)
    /\ LoopStep("connect", "user")

\* A client opens /ws/attendance/stream.
ConnectStream ==
    /\ ws.loop # "closed"
    /\ \E c \in StreamConns :
          /\ ws.socket[c] = "free"
          /\ ws' = connect_stream(ws, c)
    /\ LoopStep("connect", "stream")

\* The peer of a connection goes away; a send on the socket raises from now on.
PeerGone ==
    /\ \E c \in Conns :
          /\ ws.socket[c] = "connected"
          /\ ws' = [ws EXCEPT !.socket[c] = "dead", !.sends = {}]
    /\ LoopStep("peer_gone", "none")

\* receive_text raises WebSocketDisconnect and the handler unsubscribes.
HandlerReturned(w, c) ==
    IF c \in UserConns THEN disconnect(w, Employee) ELSE disconnect_stream(w, c)

HandlerReturns ==
    /\ ws.loop = "running"
    /\ \E c \in Conns :
          /\ ws.socket[c] = "dead"
          /\ ws' = HandlerReturned([ws EXCEPT !.socket[c] = "closed", !.sends = {}], c)
    /\ LoopStep("disconnect", "none")

\* notify(user_id) up to the end of its send: the socket registered for the
\* user is looked up and written.
notify(w, i, c) ==
    IF c = NoConn THEN [w EXCEPT !.tasks[i].pc = "streams", !.sends = {}]
    ELSE IF w.socket[c] = "connected"
    THEN [w EXCEPT !.tasks[i].pc = "streams",
                   !.sends = {[conn |-> c, on |-> "loop"]}]
    ELSE [w EXCEPT !.tasks[i].pc = "failed", !.sends = {}]

NotifyUser ==
    /\ ws.loop = "running"
    /\ \E i \in DOMAIN ws.tasks :
          /\ ws.tasks[i].pc = "notify"
          /\ ws' = notify(ws, i, ws.active_connections[ws.tasks[i].user])
    /\ LoopStep("notify", "user")

\* The except branch of notify, run when the failed send resumes.
NotifyUserFailed ==
    /\ ws.loop = "running"
    /\ \E i \in DOMAIN ws.tasks :
          /\ ws.tasks[i].pc = "failed"
          /\ ws' = [disconnect(ws, ws.tasks[i].user) EXCEPT
                       !.tasks[i].pc = "streams", !.sends = {}]
    /\ LoopStep("notify", "failed")

\* notify_streams: every registered stream socket is written, the stale ones
\* are unregistered, and the coroutine ends.
notify_streams(w, i) ==
    [w EXCEPT
        !.sends = {[conn |-> c, on |-> "loop"] :
                     c \in {d \in w.stream_connections : w.socket[d] = "connected"}},
        !.stream_connections = {d \in @ : w.socket[d] = "connected"},
        !.tasks = SubSeq(@, 1, i - 1) \o SubSeq(@, i + 1, Len(@))]

NotifyStreams ==
    /\ ws.loop = "running"
    /\ \E i \in DOMAIN ws.tasks :
          /\ ws.tasks[i].pc = "streams"
          /\ ws' = notify_streams(ws, i)
    /\ LoopStep("notify", "streams")

\* The server shuts its event loop down.
CloseLoop ==
    /\ ws.loop = "running"
    /\ ws' = [ws EXCEPT !.loop = "closed", !.sends = {}]
    /\ LoopStep("close_loop", "none")

NextNotifier ==
    \/ Connect
    \/ ConnectStream
    \/ PeerGone
    \/ HandlerReturns
    \/ NotifyUser
    \/ NotifyUserFailed
    \/ NotifyStreams
    \/ CloseLoop
    \/ ClockIn
    \/ ClockOut

\* The employee clocks in and out on a working day while clients come and go.
SpecNotifier == InitTasks /\ [][NextNotifier]_vars

-----------------------------------------------------------------------------
(* Concurrent sessions on attendance_logs.  A request reads the row of      *)
(* (user, date) in one statement and writes at its commit; other sessions   *)
(* may commit in between.  records, the per-date view of the sequential     *)
(* requests, is not used here.                                              *)

\* db.query(Attendance).filter(user_id == ..., date == d).first()
first_row(rows, d) ==
    IF \E r \in rows : r.date = d THEN CHOOSE r \in rows : r.date = d ELSE Missing

\* INSERT without unique_user_date on the table.
insert_row_unconstrained(rows, row) ==
    [rows |-> rows \cup {row}, raised |-> FALSE]

\* INSERT of a new row at commit; unique_user_date refuses a second row of
\* the date with an IntegrityError.
insert_row(rows, row) ==
    IF \E r \in rows : r.date = row.date
    THEN [rows |-> rows, raised |-> TRUE]
    ELSE [rows |-> rows \cup {row}, raised |-> FALSE]

\* UPDATE of the row the session loaded, by primary key; the date column is
\* not among the columns any request assigns.  No row matched raises.
update_row(rows, id, clocked) ==
    IF \E r \in rows : r.id = id
    THEN [rows |-> {IF r.id = id THEN [r EXCEPT !.clocked = clocked] ELSE r : r \in rows},
          raised |-> FALSE]
    ELSE [rows |-> rows, raised |-> TRUE]

\* DELETE of the row the session loaded, by primary key.
delete_row(rows, id) ==
    IF \E r \in rows : r.id = id
    THEN [rows |-> {r \in rows : r.id # id}, raised |-> FALSE]
    ELSE [rows |-> rows, raised |-> TRUE]

\* if not attendance: Attendance(user_id, date, ...); db.add; else assign.
upsert_row(t, existing, d, clocked) ==
    IF existing.id = NoRow
    THEN insert_row(t.rows, [id |-> t.last_id + 1, date |-> d, clocked |-> clocked])
    ELSE update_row(t.rows, existing.id, clocked)

\* The session's first statement: it loads the row of the date.
Queried(s, op, d) ==
    /\ table.sessions[s].pc = "idle"
    /\ table' = [table EXCEPT !.sessions[s] =
                    [pc |-> "queried", op |-> op, date |-> d,
                     existing |-> first_row(table.rows, d)]]
    /\ lastOp' = Answer(op, "queried", 0, <<>>)
    /\ UNCHANGED <<now, records, timers, leave, holiday, marks, inflight>>
    /\ Notified

\* The session's commit with the rows w it writes; the id sequence moves on
\* when a row was inserted, and a failed commit is rolled back.
Committed(s, w, notifies) ==
    /\ table.sessions[s].pc = "queried"
    /\ table.sessions[s].existing.id = NoRow => table.last_id < MaxRowId
    /\ table' = [table EXCEPT
                    !.rows = w.rows,
                    !.last_id = IF Cardinality(w.rows) > Cardinality(table.rows)
                                   \/ (w.raised /\ table.sessions[s].existing.id = NoRow)
                                THEN @ + 1 ELSE @,
                    !.sessions[s] = Idle]
    /\ lastOp' = Answer(table.sessions[s].op,
                        IF w.raised
                        THEN IF table.sessions[s].existing.id = NoRow
                             THEN "IntegrityError" ELSE "StaleDataError"
                        ELSE "ok",
                        0, IF w.raised \/ ~notifies THEN <<>> ELSE <<"commit", "notify">>)
    /\ UNCHANGED <<now, records, timers, leave, marks, inflight>>

\* clock_in up to its row query, on a working day or on a holiday or leave.
ClockInQuery ==
    Queried("clock_in",
            IF _is_holiday_for_user(get_ist_date(now))
               \/ _leave_status_for_date(get_ist_date(now)) # "none"
            THEN "upsert_non_working" ELSE "clock_in",
            get_ist_date(now))

\* clock_in from the row query to the commit; the refusal of a row that is
\* already open writes nothing and is not a step here.
ClockInCommit ==
    /\ Committed("clock_in",
                 upsert_row(table, table.sessions["clock_in"].existing,
                            table.sessions["clock_in"].date,
                            table.sessions["clock_in"].op = "clock_in"),
                 TRUE)
    /\ UNCHANGED holiday
    /\ Notified

\* mark_attendance up to its row query.
MarkQuery ==
    \E d \in Days : Queried("mark", "mark", d)

\* mark_attendance from the row query to the commit, with or without times.
MarkCommit ==
    /\ \E clocked \in BOOLEAN :
          Committed("mark",
                    upsert_row(table, table.sessions["mark"].existing,
                               table.sessions["mark"].date, clocked),
                    TRUE)
    /\ UNCHANGED holiday
    /\ Notified

\* create_holiday or delete_holiday up to the row query of
\* _auto_mark_holiday_attendance.
HolidayQuery ==
    \/ Queried("holiday", "create_holiday", HolidayDay)
    \/ holiday /\ Queried("holiday", "delete_holiday", HolidayDay)

\* What _auto_mark_holiday_attendance writes: a placeholder row when it found
\* none, or the removal of the row it found without clock data.
holiday_rows(t, s) ==
    IF s.op = "create_holiday"
    THEN IF s.existing.id = NoRow
         THEN insert_row(t.rows, [id |-> t.last_id + 1, date |-> s.date, clocked |-> FALSE])
         ELSE [rows |-> t.rows, raised |-> FALSE]
    ELSE IF s.existing.id # NoRow /\ ~s.existing.clocked
         THEN delete_row(t.rows, s.existing.id)
         ELSE [rows |-> t.rows, raised |-> FALSE]

\* create_holiday or delete_holiday from the row query to the commit.
HolidayCommit ==
    /\ Committed("holiday", holiday_rows(table, table.sessions["holiday"]), FALSE)
    /\ holiday' = IF holiday_rows(table, table.sessions["holiday"]).raised THEN holiday
                  ELSE table.sessions["holiday"].op = "create_holiday"
    /\ Notified

NextRows ==
    \/ ClockInQuery
    \/ ClockInCommit
    \/ MarkQuery
    \/ MarkCommit
    \/ HolidayQuery
    \/ HolidayCommit

\* A clock-in, an admin mark and a holiday change run side by side.
SpecRows == Init /\ [][NextRows]_vars

-----------------------------------------------------------------------------
(* Concurrent closes of one session.  A sweep or a clock-out loads the Open  *)
(* row, computes the closed row on its own copy and writes at its commit the *)
(* columns it changed; another request may commit in between.                *)

\* The closing request s loads row d at the request time now.
Loaded(s, op, d) ==
    /\ inflight[s].pc = "idle"
    /\ inflight' = [inflight EXCEPT ![s] =
                      [pc |-> "loaded", op |-> op, date |-> d, at |-> now,
                       row |-> records[d]]]
    /\ lastOp' = Answer(op, "loaded", 0, <<>>)
    /\ UNCHANGED <<now, records, timers, leave, holiday, marks, table>>
    /\ Notified

\* The sweep of a request finds an Open row that has crossed a boundary.
SweepLoad ==
    \E s \in Closers : \E d \in OpenRows(DB) :
        /\ auto_close_if_needed(DB, d, now).closed
        /\ Loaded(s, "sweep", d)

\* clock_out_route, whose sweep had nothing to close, finds the Open row.
ClockOutLoad ==
    \E s \in Closers :
        /\ OpenRows(DB) # {}
        /\ \A d \in OpenRows(DB) : ~auto_close_if_needed(DB, d, now).closed
        /\ Loaded(s, "clock_out", LatestOpen(DB))

\* The row as the request r has closed it on its own copy.
ClosedCopy(r) ==
    IF r.op = "sweep"
    THEN auto_close_if_needed([records |-> [d \in Days |-> IF d = r.date THEN r.row
                                                          ELSE NoRecord],
                               timers |-> {}], r.date, r.at).db.records[r.date]
    ELSE _close_attendance([records |-> [d \in Days |-> IF d = r.date THEN r.row
                                                        ELSE NoRecord],
                            timers |-> {}], r.date, r.at).records[r.date]

\* The UPDATE of a flush that adds the worked seconds to the stored column.
flush_incremental(committed, loaded, changed) ==
    [f \in DOMAIN committed |->
        IF f = "total_seconds"
        THEN committed[f] + (changed[f] - loaded[f])
        ELSE IF changed[f] # loaded[f] THEN changed[f] ELSE committed[f]]

\* The UPDATE of a flush: the columns whose value the request changed are
\* set to the values of its copy, the others keep what is stored.
flush(committed, loaded, changed) ==
    [f \in DOMAIN committed |->
        IF changed[f] # loaded[f] THEN changed[f] ELSE committed[f]]

\* The request commits its close and notifies.
CloseCommit ==
    /\ \E s \in Closers :
          /\ inflight[s].pc = "loaded"
          /\ records' = [records EXCEPT ![inflight[s].date] =
                            flush(@, inflight[s].row, ClosedCopy(inflight[s]))]
          /\ timers' = _close_running_tasks(timers,
                                            ClosedCopy(inflight[s]).clock_out_time)
          /\ lastOp' = Answer(inflight[s].op, "ok",
                              IF inflight[s].op = "sweep" THEN 1 ELSE 0,
                              <<"commit", "notify">>)
          /\ inflight' = [inflight EXCEPT ![s] = NoRequest]
    /\ UNCHANGED <<now, leave, holiday, marks, table>>
    /\ Notified

\* A clock-in that arrives while no close is in flight.
ClockInAlone ==
    /\ \A s \in Closers : inflight[s].pc = "idle"
    /\ ClockIn

NextClose ==
    \/ Tick
    \/ ClockInAlone
    \/ SweepLoad
    \/ ClockOutLoad
    \/ CloseCommit

\* Two requests close the employee's session side by side on a working day.
SpecClose == InitTasks /\ [][NextClose]_vars

-----------------------------------------------------------------------------
(* The classifier on closed days.  The table holds one closed row of day 0,  *)
(* read on the next morning: a row as a close left it, or a row written      *)
(* before first_clock_in_time, status and half_day_type were added to the    *)
(* table (ensure_attendance_schema).                                         *)

StartTimes == {HM(8, 45), HM(9, 0), HM(9, 30), HM(9, 31), HM(13, 59), HM(14, 0)}
EndTimes == {HM(12, 59), HM(13, 0), HM(13, 59), HM(14, 0), HM(17, 59), HM(18, 0), HM(18, 1)}
WorkedValues == {0, HALF_DAY_MIN_SECONDS - 1, HALF_DAY_MIN_SECONDS}

\* The row of day 0 after a close at end of a day first opened at start.
ClosedAt(start, end, total) ==
    _sync_status_fields([NewRecord EXCEPT !.first_clock_in_time = AtIst(0, start),
                                          !.clock_out_time = AtIst(0, end),
                                          !.total_seconds = total],
                        0, AtIst(0, end))

\* A row of day 0 from before the added columns.
LegacyRow(end, total) ==
    [NewRecord EXCEPT !.clock_out_time = AtIst(0, end), !.total_seconds = total]

ClosedRows ==
    {ClosedAt(start, end, total) :
        <<start, end, total>> \in {c \in StartTimes \X EndTimes \X WorkedValues :
                                     c[1] < c[2] /\ c[3] <= c[2] - c[1]}}
    \cup {LegacyRow(end, total) : end \in EndTimes, total \in WorkedValues}

InitClassify ==
    /\ now = AtIst(1, HM(9, 15))
    /\ records \in {[d \in Days |-> IF d = 0 THEN row ELSE NoRecord] : row \in ClosedRows}
    /\ timers = {}
    /\ leave = "none"
    /\ holiday = FALSE
    /\ marks = 0
    /\ ws = NoNotifier
    /\ table = NoTable
    /\ inflight = [s \in Closers |-> NoRequest]
    /\ lastOp = Answer("none", "none", 0, <<>>)

NextClassify ==
    \/ Tick
    \/ GetHistory
    \/ GetMonthlyAttendance
    \/ GetAttendanceDetails

\* The day's row is read by the employee and by the admin.
SpecClassify == InitClassify /\ [][NextClassify]_vars

-----------------------------------------------------------------------------
(* The interval calculator on sessions of any length.  The employee clocks   *)
(* in and logs out at the instants below; a logout closes the session at the *)
(* request time without a sweep, so the calculator sees every pair; a read  *)
(* of the history classifies the day while its session is running.          *)

WorkInstants ==
    {AtIst(0, tod) : tod \in {HM(9, 15), HM(10, 0), HM(12, 59), HM(13, 0), HM(13, 30),
                              HM(14, 0), HM(15, 0), HM(18, 0)}}
    \cup {AtIst(1, tod) : tod \in {HM(9, 15), HM(13, 30), HM(14, 30)}}

InitWork ==
    /\ InitTasks
    /\ now \in WorkInstants

\* Time passes between requests.
Elapse ==
    /\ \E t \in WorkInstants : t > now /\ now' = t
    /\ lastOp' = Answer("none", "none", 0, <<>>)
    /\ UNCHANGED <<records, timers, leave, holiday, marks>>
    /\ UNCHANGED <<table, inflight>>
    /\ Notified

NextWork ==
    \/ Elapse
    \/ ClockIn
    \/ Logout
    \/ GetHistory

SpecWork == InitWork /\ [][NextWork]_vars

-----------------------------------------------------------------------------
(* Properties.  The state before a request is the unprimed state; lastOp'   *)
(* names the request a step handled and what it answered.                  *)

Today == get_ist_date(now)

\* The sweep of the current rows at the current instant.
AfterSweep == auto_close_open_attendances_for_user(DB, now)

\* The boundary that AutoClose applies to an open row of date d at instant
\* current, None when no boundary has been crossed.
CrossedBoundary(att, d, current) ==
    IF d < get_ist_date(current) THEN _shift_end_utc_for_ist_date(d)
    ELSE IF _break_window_utc_for_ist_date(d)[1] <= current
            /\ att.clock_in_time < _break_window_utc_for_ist_date(d)[1]
         THEN _break_window_utc_for_ist_date(d)[1]
    ELSE IF _shift_end_utc_for_ist_date(d) <= current
            /\ att.clock_in_time < _shift_end_utc_for_ist_date(d)
         THEN _shift_end_utc_for_ist_date(d)
    ELSE None

StaleRows == {d \in OpenRows(DB) : CrossedBoundary(records[d], d, now) # None}

\* The instants at which a request or a boundary can close a session.
CloseTimes ==
    Instants \cup {t + SESSION_IDLE_TIMEOUT : t \in SeenTimes}
    \cup {_break_window_utc_for_ist_date(d)[1] : d \in Days}
    \cup {_shift_end_utc_for_ist_date(d) : d \in Days}

\* The requests that read or change the attendance rows.
AttendanceOps == {"clock_in", "clock_out", "get_active", "mark_attendance", "logout"}

\* The step handled such a request, or closed the sessions of an idle login.
AttendanceRequest ==
    \/ lastOp'.op \in AttendanceOps
    \/ lastOp'.op = "get_current_user" /\ lastOp'.result = "idle"

\* C1: in every reachable state the employee has at most one Open record
\* (clock_in_time set, clock_out_time empty).
C1_AtMostOneOpen == Cardinality(OpenRows(DB)) <= 1

\* Two rows are open at once.
C1_TwoOpen == Cardinality(OpenRows(DB)) = 2 /\ lastOp.op = "mark_attendance"

\* C2: a row's total_seconds changes only in an admin mark or when the step
\* closes the row's open session, and then it grows by the worked seconds of
\* that session up to some close time at or after its clock-in; every other
\* step, a failing clock-in included, leaves it as it was.
C2_AccumulatedOnlyGrowsByClose ==
    [][\A d \in Days :
          records'[d].total_seconds # records[d].total_seconds
          => \/ lastOp'.op = "mark_attendance"
             \/ /\ IsOpen(records[d])
                /\ \E c \in CloseTimes :
                      records'[d].total_seconds
                         = records[d].total_seconds
                           + calculate_work_seconds(records[d].clock_in_time,
                                                    Max(c, records[d].clock_in_time))]_vars

\* C3 as stated: right after a sweep no Open row has its date's shift end at
\* or before now, whenever its session was opened, and the active read reports
\* no running session at or after today's shift end.
C3_NoOpenPastShiftEnd ==
    lastOp.op = "get_active"
    => /\ \A d \in Days :
             IsOpen(records[d]) => now < _shift_end_utc_for_ist_date(d)
       /\ lastOp.is_running => now < _shift_end_utc_for_ist_date(Today)

\* C3: right after a sweep no Open row is left from an earlier date, and an
\* Open row whose date's shift end is at or before now was opened at or after
\* that shift end; the active read reports a running session at or after
\* today's shift end only for such a session.
C3_NoStaleOpenAfterSweep ==
    lastOp.op = "get_active"
    => /\ \A d \in Days :
             IsOpen(records[d])
             => /\ d >= Today
                /\ _shift_end_utc_for_ist_date(d) <= now
                   => records[d].clock_in_time >= _shift_end_utc_for_ist_date(d)
       /\ (lastOp.is_running /\ _shift_end_utc_for_ist_date(Today) <= now)
          => /\ IsOpen(records[Today])
             /\ records[Today].clock_in_time >= _shift_end_utc_for_ist_date(Today)

\* The sweep of an active read has closed today's session at the shift end.
C3_SweptAtShiftEnd ==
    /\ lastOp.op = "get_active"
    /\ lastOp.swept = 1
    /\ ~lastOp.is_running
    /\ now >= _shift_end_utc_for_ist_date(Today)
    /\ records[Today].clock_out_time = _shift_end_utc_for_ist_date(Today)

\* C4: a sweep with no Open row changes nothing, returns 0 and notifies
\* nobody; a sweep returns the number of boundary-crossed Open rows (1 for one
\* such row); and a sweep that directly follows a sweep returns 0 and leaves
\* every row, every task timer and the notifications as they were.
C4_SweepIdempotent ==
    [][lastOp'.op = "get_active"
       => /\ OpenRows(DB) = {}
             => /\ records' = records
                /\ timers' = timers
                /\ lastOp'.swept = 0
                /\ lastOp'.events = <<>>
          /\ lastOp'.swept = Cardinality(StaleRows)
          /\ NotifyCount(lastOp'.events) = lastOp'.swept
          /\ lastOp.op = "get_active"
             => /\ records' = records
                /\ timers' = timers
                /\ lastOp'.swept = 0
                /\ lastOp'.events = <<>>]_vars

\* A sweep has closed one session and the task timer that ran in it.
C4_SweptOnce ==
    /\ lastOp.op = "get_active"
    /\ lastOp.swept = 1
    /\ OpenRows(DB) = {}
    /\ \E log \in timers : log.end_time = records[Today].clock_out_time

\* C5: every request that reads or changes the attendance rows sweeps first:
\* an Open row that a boundary should already have closed is not left open by
\* the request, and if the request leaves it closed, its clock-out is not later
\* than that boundary (nor than its clock-in, for a session opened after it).
C5_SweepBeforeEveryOperation ==
    [][AttendanceRequest
       => \A d \in StaleRows :
             /\ ~(IsOpen(records'[d])
                  /\ CrossedBoundary(records'[d], d, now) # None)
             /\ records'[d].clock_out_time # None
                => records'[d].clock_out_time
                      <= Max(CrossedBoundary(records[d], d, now),
                             records[d].clock_in_time)]_vars

\* A logout has closed a session later than the boundary that ended it.
C5_ClosedLate ==
    /\ lastOp.op = "logout"
    /\ lastOp.swept = 1
    /\ marks = 0
    /\ records[Today].clock_out_time = now
    /\ now > _shift_end_utc_for_ist_date(Today)
    /\ records[Today].first_clock_in_time # None
    /\ records[Today].first_clock_in_time < _break_window_utc_for_ist_date(Today)[1]
    /\ records[Today].total_seconds
          = calculate_work_seconds(records[Today].first_clock_in_time, now)

\* Today's row as the sweep of a clock-in leaves it, before the clock-in proper.
SweptToday == AfterSweep.db.records[Today]

\* C6: a successful clock-in at now leaves today's row Open with
\* clock_in_time = now and no clock_out_time, sets first_clock_in_time to now
\* only if it was empty, clears the manual-override flags, leaves total_seconds
\* as the sweep left it, and requests one notification of its own.
C6_ClockInOpensRecord ==
    [][(lastOp'.op = "clock_in" /\ lastOp'.result = "ok")
       => /\ IsOpen(records'[Today])
          /\ records'[Today].clock_in_time = now
          /\ records'[Today].clock_out_time = None
          /\ records'[Today].first_clock_in_time
                = IF SweptToday.first_clock_in_time = None THEN now
                  ELSE SweptToday.first_clock_in_time
          /\ ~records'[Today].manual_override
          /\ ~records'[Today].is_manual_edit
          /\ records'[Today].total_seconds = SweptToday.total_seconds
          /\ \A d \in Days \ {Today} : records'[d] = AfterSweep.db.records[d]
          /\ NotifyCount(lastOp'.events) = NotifyCount(AfterSweep.events) + 1]_vars

\* A clock-in has resumed a day that already holds worked time.
C6_Resumed ==
    /\ lastOp.op = "clock_in"
    /\ lastOp.result = "ok"
    /\ IsOpen(records[Today])
    /\ records[Today].clock_in_time = now
    /\ records[Today].total_seconds > 0
    /\ records[Today].first_clock_in_time < now

\* C7: on a working day outside the break, a clock-in answers AlreadyClockedIn
\* exactly when the employee has an Open row after the sweep, and then leaves
\* the rows as the sweep left them.
C7_AlreadyClockedInIffOpen ==
    [][(/\ lastOp'.op = "clock_in"
        /\ ~_is_holiday_for_user(Today)
        /\ _leave_status_for_date(Today) = "none"
        /\ ~is_break_time_ist(now))
       => /\ lastOp'.result = "AlreadyClockedIn" <=> OpenRows(AfterSweep.db) # {}
          /\ lastOp'.result = "AlreadyClockedIn"
             => records' = AfterSweep.db.records]_vars

\* A clock-in has been refused as AlreadyClockedIn with no Open row.
C7_RefusedOnClosed ==
    /\ lastOp.op = "clock_in"
    /\ lastOp.result = "AlreadyClockedIn"
    /\ OpenRows(DB) = {}
    /\ records[Today].clock_out_time # None

\* The row a clock-out closes, as the sweep of the request leaves it.
ClockOutDay == LatestOpen(AfterSweep.db)
ClockOutRow == AfterSweep.db.records[ClockOutDay]

C9_NoOpenFailsNotClockedIn ==
    [][(lastOp'.op = "clock_out" /\ OpenRows(DB) = {})
       => /\ lastOp'.result = "NotClockedIn"
          /\ records' = records
          /\ timers' = timers]_vars

\* C9: a clock-out with no Open row changes no row and no task timer and
\* notifies nobody; it fails with NotClockedIn unless today's row already has
\* a clock_out_time, and then it answers "Already clocked out".
C9_NoOpenChangesNothing ==
    [][(lastOp'.op = "clock_out" /\ OpenRows(DB) = {})
       => /\ lastOp'.result
                = IF records[Today].exists /\ records[Today].clock_out_time # None
                  THEN "AlreadyClockedOut" ELSE "NotClockedIn"
          /\ records' = records
          /\ timers' = timers
          /\ lastOp'.swept = 0
          /\ lastOp'.events = <<>>]_vars

\* A second clock-out on a Closed day has been answered, timers untouched.
C9_AnsweredAlreadyClockedOut ==
    /\ lastOp.op = "clock_out"
    /\ lastOp.result = "AlreadyClockedOut"
    /\ lastOp.swept = 0
    /\ records[Today].clock_out_time # None
    /\ timers # {}

\* C10 as stated: a clock-in in the break window fails with BreakTime and
\* leaves every row exactly as it was before the call.
C10_BreakClockInChangesNothing ==
    [][(lastOp'.op = "clock_in" /\ is_break_time_ist(now))
       => /\ lastOp'.result = "BreakTime"
          /\ records' = records]_vars

\* C10: on a day that is neither a holiday nor a leave day, a clock-in in the
\* break window fails with BreakTime; it creates no row and leaves every row
\* as the sweep of the call leaves it: a row that was not Open is unchanged,
\* and an Open row is at most closed at its boundary.
C10_BreakClockInOnlySweeps ==
    [][(/\ lastOp'.op = "clock_in"
        /\ is_break_time_ist(now)
        /\ ~_is_holiday_for_user(Today)
        /\ _leave_status_for_date(Today) = "none")
       => /\ lastOp'.result = "BreakTime"
          /\ records' = AfterSweep.db.records
          /\ \A d \in Days :
                /\ records'[d].exists = records[d].exists
                /\ ~IsOpen(records[d]) => records'[d] = records[d]
                /\ (IsOpen(records[d]) /\ records'[d] # records[d])
                   => /\ CrossedBoundary(records[d], d, now) # None
                      /\ records'[d].clock_out_time
                            = Max(CrossedBoundary(records[d], d, now),
                                  records[d].clock_in_time)]_vars

\* A clock-in in the break has been refused after its sweep closed the
\* morning session at the break start.
C10_RefusedAfterAutoClose ==
    /\ lastOp.op = "clock_in"
    /\ lastOp.result = "BreakTime"
    /\ lastOp.swept = 1
    /\ marks = 0
    /\ records[Today].clock_out_time = _break_window_utc_for_ist_date(Today)[1]

\* C11: a clock-in on a day that is a holiday for the employee, or that a
\* leave row covers, fails with the holiday error, the approved-leave error or
\* the unapproved-leave error; it opens no session (a row that is Open
\* afterwards is an untouched row of a later date), and today's row exists
\* afterwards with status holiday (leave for an approved leave, absent for an
\* unapproved one), total_seconds 0 and neither clock time.
C11_NonWorkingDayClockIn ==
    [][(/\ lastOp'.op = "clock_in"
        /\ (_is_holiday_for_user(Today) \/ _leave_status_for_date(Today) # "none"))
       => /\ lastOp'.result
                = IF _is_holiday_for_user(Today) THEN "Holiday"
                  ELSE IF _leave_status_for_date(Today) = "leave" THEN "Leave"
                  ELSE "LeaveUnapproved"
          /\ \A d \in Days :
                IsOpen(records'[d]) => d > Today /\ records'[d] = records[d]
          /\ records'[Today].exists
          /\ records'[Today].status
                = IF _is_holiday_for_user(Today) THEN "holiday"
                  ELSE _leave_status_for_date(Today)
          /\ records'[Today].total_seconds = 0
          /\ records'[Today].clock_in_time = None
          /\ records'[Today].clock_out_time = None]_vars

\* A clock-in on a holiday has been refused after its sweep closed a session
\* of the day, and the day's row is the synthesized holiday row.
C11_HolidayRowLeft ==
    /\ lastOp.op = "clock_in"
    /\ lastOp.result = "Holiday"
    /\ lastOp.swept = 1
    /\ records[Today].status = "holiday"
    /\ records[Today].total_seconds = 0
    /\ records[Today].clock_out_time = None

\* The daily cap of C12.  The service defines no cap of its own; the standard
\* working day is the only daily limit it names.
MaxDailySeconds == STANDARD_WORK_SECONDS

\* C12: on a working day outside the break, a clock-in fails with
\* ShiftComplete whenever today's row is Closed with total_seconds at or above
\* the daily cap, so a day is reopened only while it is below the cap.
C12_ShiftCompleteAtCap ==
    [][(/\ lastOp'.op = "clock_in"
        /\ ~_is_holiday_for_user(Today)
        /\ _leave_status_for_date(Today) = "none"
        /\ ~is_break_time_ist(now)
        /\ SweptToday.exists
        /\ SweptToday.clock_in_time = None
        /\ SweptToday.clock_out_time # None
        /\ SweptToday.total_seconds >= MaxDailySeconds)
       => /\ lastOp'.result = "ShiftComplete"
          /\ ~IsOpen(records'[Today])]_vars

\* A clock-in has reopened a day the employee had closed at or above the cap.
C12_ReopenedPastCap ==
    /\ lastOp.op = "clock_in"
    /\ lastOp.result = "ok"
    /\ marks = 0
    /\ IsOpen(records[Today])
    /\ records[Today].total_seconds >= MaxDailySeconds

\* The status the classifier gives the row's times, manual flags set aside.
RawStatus(att, d, current) ==
    determine_attendance_status([att EXCEPT !.is_manual_edit = FALSE], d,
                                get_attendance_worked_seconds(att, d, current),
                                current).status

\* The row carries an admin override with status present.
ManualPresent(att) == att.exists /\ att.is_manual_edit /\ att.status = "present"

ReadOps == {"get_history", "get_monthly_attendance", "get_attendance_details"}

\* C13: an admin mark that asks for status present on a day whose times
\* classify as absent stores status present under the manual flag; every read
\* path reports present for a day that carries such an override; and the
\* override stays until a clock-in or another mark.
C13_OverridePresentReported ==
    [][/\ \A d \in Days, p \in OverridePayloads :
             (/\ lastOp'.op = "mark_attendance"
              /\ p.status = "present"
              /\ RawStatus(records[d], d, now) = "absent"
              /\ records' = [records EXCEPT ![d] = MarkedRow(records[d], d, p, now)])
             => ManualPresent(records'[d])
       /\ \A d \in Days :
             (lastOp'.op \in ReadOps /\ ManualPresent(records'[d])
              /\ lastOp'.report[d] # "none")
             => lastOp'.report[d] = "present"
       /\ \A d \in Days :
             (ManualPresent(records[d]) /\ ~ManualPresent(records'[d]))
             => lastOp'.op \in {"clock_in", "mark_attendance"}]_vars

\* The history has reported holiday for a day that carries an override to
\* present.
C13_HistoryReportsHoliday ==
    /\ lastOp.op = "get_history"
    /\ \E d \in Days : ManualPresent(records[d]) /\ lastOp.report[d] = "holiday"

\* C14: when the loop runs notify for the employee, every connection made for
\* the employee whose handler is still waiting and whose peer is alive is
\* written one event, also when two such connections exist at once; and when
\* it runs notify_streams, every such stream connection is written one event.
C14_EverySubscriberNotified ==
    [][/\ (lastOp'.op = "notify" /\ lastOp'.result = "user")
          => \A c \in UserConns :
                ws.socket[c] = "connected"
                => [conn |-> c, on |-> "loop"] \in ws'.sends
       /\ (lastOp'.op = "notify" /\ lastOp'.result = "streams")
          => \A c \in StreamConns :
                ws.socket[c] = "connected"
                => [conn |-> c, on |-> "loop"] \in ws'.sends]_vars

\* notify has written one of two live connections of the employee.
C14_OneOfTwoNotified ==
    /\ lastOp.op = "notify"
    /\ lastOp.result = "user"
    /\ \A c \in UserConns : ws.socket[c] = "connected"
    /\ Cardinality(ws.sends) = 1

\* C15: whatever the notifier holds (no loop, a closed loop, dead sockets,
\* deliveries waiting or failing), a clock-in or clock-out answers and commits
\* what the attendance rows alone determine and never an internal error; and a
\* step of the loop, a failed delivery included, leaves the committed rows,
\* the task timers and the answer given as they are.
C15_DeliveryNeverFailsMutation ==
    [][/\ lastOp'.op = "clock_in"
          => /\ lastOp'.result
                   = IF SweptToday.exists /\ SweptToday.clock_in_time # None
                     THEN "AlreadyClockedIn" ELSE "ok"
             /\ records'
                   = IF lastOp'.result = "ok"
                     THEN [AfterSweep.db.records EXCEPT
                             ![Today] = OpenedRecord(SweptToday, Today, now)]
                     ELSE AfterSweep.db.records
       /\ lastOp'.op = "clock_out"
          => IF OpenRows(AfterSweep.db) = {}
             THEN /\ lastOp'.result = clock_out_route_no_open(SweptToday)
                  /\ records' = AfterSweep.db.records
             ELSE /\ lastOp'.result = "ok"
                  /\ records' = _close_attendance(AfterSweep.db, ClockOutDay, now).records
       /\ lastOp'.op \in {"notify", "disconnect", "peer_gone", "close_loop", "connect"}
          => records' = records /\ timers' = timers]_vars

\* A delivery has failed on a dead socket after the clock-in it reports was
\* committed.
C15_DeliveryFailedAfterCommit ==
    /\ lastOp.op = "notify"
    /\ lastOp.result = "failed"
    /\ IsOpen(records[Today])
    /\ ws.active_connections[Employee] = NoConn

\* C16: a request that notifies returns with no socket written: with a
\* running loop each of its notifications is left as a coroutine waiting on
\* the loop, and with no loop or a closed one the notifier is left as it was;
\* every write to a socket is made by a step of the loop.
C16_NotifyOnlySchedules ==
    [][/\ lastOp'.op \in {"clock_in", "clock_out"}
          => /\ ws'.sends = {}
             /\ ws'.socket = ws.socket
             /\ ws'.active_connections = ws.active_connections
             /\ ws'.stream_connections = ws.stream_connections
             /\ ws'.loop = ws.loop
             /\ ws.loop # "running" => ws'.tasks = ws.tasks
             /\ ws.loop = "running"
                => /\ Len(ws'.tasks) = Len(ws.tasks) + NotifyCount(lastOp'.events)
                   /\ SubSeq(ws'.tasks, 1, Len(ws.tasks)) = ws.tasks
                   /\ \A i \in (Len(ws.tasks) + 1)..Len(ws'.tasks) :
                         ws'.tasks[i] = [user |-> Employee, pc |-> "notify"]
       /\ \A snd \in ws'.sends : snd.on = "loop"
       /\ ws'.sends # {} => lastOp'.op = "notify"]_vars

\* A clock-in has returned with its notification waiting on the loop and a
\* live subscriber not yet written.
C16_ScheduledNotSent ==
    /\ lastOp.op = "clock_in"
    /\ lastOp.result = "ok"
    /\ ws.loop = "running"
    /\ Len(ws.tasks) = 1
    /\ ws.sends = {}
    /\ ws.active_connections[Employee] # NoConn
    /\ ws.socket[ws.active_connections[Employee]] = "connected"

\* Today's first session was opened at the time of day tod, has been open
\* since, and the instant is the time of day at of the same day.
OpenSince(tod, at) ==
    /\ now = AtIst(Today, at)
    /\ IsOpen(records[Today])
    /\ records[Today].clock_in_time = AtIst(Today, tod)
    /\ records[Today].first_clock_in_time = AtIst(Today, tod)
    /\ records[Today].total_seconds = 0

\* C17 as stated: for a first clock-in at 09:45 whose session is still open at
\* 19:00, the sweep closes the row at the 18:00 shift end, and the row then
\* has status late and an overtime of one hour.
C17_LateClosedAtShiftEnd ==
    [][(OpenSince(HM(9, 45), HM(19, 0)) /\ lastOp'.op = "get_active")
       => /\ records'[Today].clock_out_time = _shift_end_utc_for_ist_date(Today)
          /\ records'[Today].status = "late"
          /\ records'[Today].overtime_hours = 100]_vars

\* C17: for a first clock-in at 09:45 whose session is still open at 19:00,
\* the sweep closes the row at the 13:00 break start, and the row then has
\* 3 h 15 min of worked time, status absent and no overtime.
C17_LateClosedAtBreakStart ==
    [][(OpenSince(HM(9, 45), HM(19, 0)) /\ lastOp'.op = "get_active")
       => /\ records'[Today].clock_out_time = _break_window_utc_for_ist_date(Today)[1]
          /\ records'[Today].clock_in_time = None
          /\ records'[Today].total_seconds = HM(3, 15)
          /\ records'[Today].status = "absent"
          /\ records'[Today].overtime_hours = 0
          /\ lastOp'.swept = 1]_vars

\* The sweep at 19:00 has closed a session opened at 09:45.
C17_SweptAtSevenPm ==
    /\ lastOp.op = "get_active"
    /\ lastOp.swept = 1
    /\ now = AtIst(Today, HM(19, 0))
    /\ records[Today].first_clock_in_time = AtIst(Today, HM(9, 45))
    /\ records[Today].clock_out_time = AtIst(Today, HM(13, 0))
    /\ records[Today].total_seconds = HM(3, 15)

\* C18 as stated: on a day whose first clock-in was at 09:15, a clock-out
\* requested at 18:00 leaves the row with status present, overtime 0 and
\* total_seconds equal to the time from 09:15 to 18:00 less the break.
C18_FullDayPresent ==
    [][(/\ lastOp'.op = "clock_out"
        /\ now = AtIst(Today, HM(18, 0))
        /\ records[Today].exists
        /\ records[Today].first_clock_in_time = AtIst(Today, HM(9, 15)))
       => /\ records'[Today].status = "present"
          /\ records'[Today].overtime_hours = 0
          /\ records'[Today].total_seconds
                = calculate_work_seconds(AtIst(Today, HM(9, 15)), now)]_vars

\* C18: on a day whose first clock-in was at 09:15, whose morning session was
\* closed at the 13:00 break start and which was resumed at 14:00, a clock-out
\* requested at 18:00 leaves the row closed at 18:00 with status present,
\* overtime 0 and total_seconds equal to the time from 09:15 to 18:00 less the
\* break.
C18_ResumedDayPresent ==
    [][(/\ lastOp'.op = "clock_out"
        /\ now = AtIst(Today, HM(18, 0))
        /\ IsOpen(records[Today])
        /\ records[Today].first_clock_in_time = AtIst(Today, HM(9, 15))
        /\ records[Today].clock_in_time = AtIst(Today, HM(14, 0))
        /\ records[Today].total_seconds = HM(3, 45))
       => /\ records'[Today].clock_out_time = now
          /\ records'[Today].clock_in_time = None
          /\ records'[Today].status = "present"
          /\ records'[Today].overtime_hours = 0
          /\ records'[Today].total_seconds
                = calculate_work_seconds(AtIst(Today, HM(9, 15)), now)
          /\ records'[Today].total_seconds = HM(7, 45)]_vars

\* A clock-out at 18:00 has left a resumed day closed with 7 h 45 min.
C18_ClockedOutAtSix ==
    /\ lastOp.op = "clock_out"
    /\ now = AtIst(Today, HM(18, 0))
    /\ records[Today].first_clock_in_time = AtIst(Today, HM(9, 15))
    /\ records[Today].clock_out_time = now
    /\ records[Today].total_seconds = HM(7, 45)
    /\ records[Today].status = "present"

\* C19: whatever way a clock-in, an admin mark and a holiday change
\* interleave, attendance_logs holds at most one row per date of the
\* employee, and no step changes the date of a row it keeps.
C19_OneRowPerDate ==
    /\ [](\A r \in table.rows : \A q \in table.rows : r.date = q.date => r = q)
    /\ [][\A r \in table.rows : \A q \in table'.rows : r.id = q.id => r.date = q.date]_vars

\* Two sessions found no row for the date and both inserted one; the later
\* commit was refused and the first row stands.
C19_RacedInsertRefused ==
    /\ lastOp.result = "IntegrityError"
    /\ \E r \in table.rows : TRUE

\* C20 as stated: a sweep closes an Open row of an earlier date at that date's
\* shift end, else a row opened before the break start that now has passed at
\* the break start, else a row opened before the shift end that now has passed
\* at the shift end; clock_out_time is that boundary and total_seconds grows
\* by the work seconds from the clock-in to the boundary.
C20_ClosedAtBoundary ==
    [][lastOp'.op = "get_active"
       => \A d \in OpenRows(DB) :
             CrossedBoundary(records[d], d, now) # None
             => /\ records'[d].clock_in_time = None
                /\ records'[d].clock_out_time = CrossedBoundary(records[d], d, now)
                /\ records'[d].total_seconds
                     = records[d].total_seconds
                       + calculate_work_seconds(records[d].clock_in_time,
                                                CrossedBoundary(records[d], d, now))]_vars

\* C20: as above, except that clock_out_time is the clock-in time when the
\* session was opened after the boundary, which happens only to a row of an
\* earlier date opened after its shift end; total_seconds grows by the work
\* seconds from the clock-in to the boundary, which are none in that case.
C20_ClosedAtBoundaryOrClockIn ==
    [][lastOp'.op = "get_active"
       => \A d \in OpenRows(DB) :
             CrossedBoundary(records[d], d, now) # None
             => /\ records'[d].clock_in_time = None
                /\ records'[d].clock_out_time
                     = Max(CrossedBoundary(records[d], d, now), records[d].clock_in_time)
                /\ (records[d].clock_in_time > CrossedBoundary(records[d], d, now)
                      => d < Today
                         /\ records[d].clock_in_time >= _shift_end_utc_for_ist_date(d))
                /\ records'[d].total_seconds
                     = records[d].total_seconds
                       + calculate_work_seconds(records[d].clock_in_time,
                                                CrossedBoundary(records[d], d, now))]_vars

\* A read on the next day has swept a session opened at 19:00 the day before
\* and closed it at 19:00.
C20_OvernightClosedAtClockIn ==
    /\ lastOp.op = "get_active"
    /\ lastOp.swept = 1
    /\ Today = 1
    /\ ~records[1].exists
    /\ records[0].clock_in_time = None
    /\ records[0].clock_out_time = AtIst(0, HM(19, 0))

\* C21: a sweep that finds no Open row with a crossed boundary (no Open row of
\* an earlier date, none opened before a break start or shift end that now has
\* reached) leaves every attendance row and every task timer as it was,
\* commits nothing and requests no notification.
C21_NoBoundaryNoEffect ==
    [][(lastOp'.op = "get_active" /\ StaleRows = {})
       => /\ records' = records
          /\ timers' = timers
          /\ lastOp'.swept = 0
          /\ lastOp'.events = <<>>]_vars

\* A read has swept a running session with a running timer before any
\* boundary, and both are still running.
C21_SweptBeforeBoundary ==
    /\ lastOp.op = "get_active"
    /\ lastOp.swept = 0
    /\ IsOpen(records[Today])
    /\ CrossedBoundary(records[Today], Today, now) = None
    /\ HasRunning(timers)

\* C22: when two sweeps, or a sweep and a clock-out, have loaded the same Open
\* row before either committed, every commit leaves the row Closed and its
\* total_seconds is what the row held when it was loaded plus the work seconds
\* of the session up to one close time: the one of this commit or the one
\* already stored.
C22_ClosedOnceUnderRace ==
    [][\A s \in Closers :
          (inflight[s].pc = "loaded" /\ inflight'[s].pc = "idle")
          => /\ records'[inflight[s].date].clock_in_time = None
             /\ records'[inflight[s].date].clock_out_time # None
             /\ \E c \in {ClosedCopy(inflight[s]).clock_out_time,
                          records[inflight[s].date].clock_out_time} \ {None} :
                   records'[inflight[s].date].total_seconds
                     = inflight[s].row.total_seconds
                       + calculate_work_seconds(inflight[s].row.clock_in_time, c)]_vars

\* One of two requests that loaded the same Open row has committed its
\* close; the other still holds its copy of the Open row.
C22_ClosedUnderOpenCopy ==
    /\ lastOp.result = "ok"
    /\ lastOp.op \in {"sweep", "clock_out"}
    /\ \E s \in Closers :
          /\ inflight[s].pc = "loaded"
          /\ IsOpen(inflight[s].row)
          /\ records[inflight[s].date].clock_in_time = None
          /\ records[inflight[s].date].clock_out_time # None
          /\ records[inflight[s].date].first_clock_in_time
               = inflight[s].row.first_clock_in_time

\* The decision list of the classifier as C23 words it, for an effective
\* clock-in at time of day start_t (None when there is none), an end at time of
\* day end_t and worked seconds.
FirstMatchingRule(start_t, end_t, worked) ==
    IF start_t = None THEN [status |-> "absent", portion |-> "none"]
    ELSE IF SHIFT_START <= start_t /\ start_t <= LATE_THRESHOLD /\ end_t >= SHIFT_END
    THEN [status |-> "present", portion |-> "none"]
    ELSE IF start_t > LATE_THRESHOLD /\ end_t > SHIFT_END
    THEN [status |-> "late", portion |-> "none"]
    ELSE IF SHIFT_START <= start_t /\ start_t <= LATE_THRESHOLD
            /\ FIRST_HALF_END <= end_t /\ end_t < SECOND_HALF_START
            /\ worked >= HALF_DAY_MIN_SECONDS
    THEN [status |-> "halfday", portion |-> "first_half"]
    ELSE IF start_t >= SECOND_HALF_START /\ end_t >= SHIFT_END
            /\ worked >= HALF_DAY_MIN_SECONDS
    THEN [status |-> "halfday", portion |-> "second_half"]
    ELSE IF worked >= HALF_DAY_MIN_SECONDS
    THEN [status |-> "halfday",
          portion |-> IF start_t >= SECOND_HALF_START THEN "second_half"
                      ELSE "first_half"]
    ELSE [status |-> "absent", portion |-> "none"]

\* A row with a clock-out, no running session and no manual edit.
ClosedUnedited(att) ==
    att.exists /\ att.clock_in_time = None /\ att.clock_out_time # None
    /\ ~att.is_manual_edit

\* What the classifier answers for the row of date d as it is stored.
Classified(d) ==
    determine_attendance_status(records[d], d,
                                get_attendance_worked_seconds(records[d], d, now), now)

\* The rule of the decision list for the row of date d.
RuleFor(d) ==
    FirstMatchingRule(
        IF get_effective_clock_in_time(records[d]) = None THEN None
        ELSE IstTime(get_effective_clock_in_time(records[d])),
        IstTime(records[d].clock_out_time),
        get_attendance_worked_seconds(records[d], d, now))

\* C23 as stated: for a closed row without manual edit the classifier answers
\* the first matching rule of the decision list, and for halfday the portion
\* that rule names.
C23_FirstMatchWins ==
    \A d \in Days :
        ClosedUnedited(records[d])
        => /\ Classified(d).status = RuleFor(d).status
           /\ (RuleFor(d).status = "halfday"
                 => Classified(d).att.half_day_type = RuleFor(d).portion)

\* A read has reported a day that the first-half rule classifies: on-time
\* entry, end between 13:00 and 14:00, four hours worked.
C23_FirstHalfReported ==
    /\ lastOp.op \in ReadOps
    /\ ClosedUnedited(records[0])
    /\ records[0].first_clock_in_time = AtIst(0, HM(9, 0))
    /\ records[0].clock_out_time = AtIst(0, HM(13, 0))
    /\ records[0].total_seconds = HALF_DAY_MIN_SECONDS
    /\ lastOp.report[0] = "halfday"
    /\ Classified(0).att.half_day_type = "first_half"

\* C24 as stated: for a row that is Open and carries no manual edit the
\* classifier answers in_progress, and the status a successful clock-in has
\* stored on today's row is in_progress.
C24_OpenIsInProgress ==
    \A d \in Days :
        (IsOpen(records[d]) /\ ~records[d].is_manual_edit)
        => /\ Classified(d).status = "in_progress"
           /\ (lastOp.op = "clock_in" /\ lastOp.result = "ok" /\ d = Today
                 => records[d].status = "in_progress")

\* A clock-in at 09:15 has opened today's row and stored status absent on it.
C24_RunningStoredAbsent ==
    /\ lastOp.op = "clock_in"
    /\ lastOp.result = "ok"
    /\ now = AtIst(Today, HM(9, 15))
    /\ IsOpen(records[Today])
    /\ ~records[Today].is_manual_edit
    /\ records[Today].status = "absent"
    /\ Classified(Today).status = "absent"

\* C25: a step that closes an Open row (a clock-out, a sweep, a logout or an
\* idle-timeout close) leaves no task timer running, and every timer that was
\* running ends at the clock_out_time written on the row.
C25_CloseEndsTimers ==
    [][\A d \in Days :
          (IsOpen(records[d]) /\ records'[d].clock_in_time = None
           /\ records'[d].clock_out_time # None)
          => /\ ~HasRunning(timers')
             /\ \A log \in timers :
                   log.end_time = None
                   => [log EXCEPT !.end_time = records'[d].clock_out_time] \in timers']_vars

\* A clock-out has closed the session and ended the timer that ran in it at
\* the request time.
C25_TimerEndedAtClockOut ==
    /\ lastOp.op = "clock_out"
    /\ lastOp.result = "ok"
    /\ records[Today].clock_out_time = now
    /\ ~HasRunning(timers)
    /\ \E log \in timers : log.end_time = now

\* The reference end of C26: the clock-out, or now for a row Open today, or
\* None.
ReferenceEnd(att, d, current) ==
    IF att.clock_out_time # None THEN att.clock_out_time
    ELSE IF IsOpen(att) /\ d = get_ist_date(current) THEN current
    ELSE None

\* The overtime of the row of date d as the calculator answers it now.
OvertimeNow(d) ==
    calculate_overtime_seconds(records[d], d,
                               get_attendance_worked_seconds(records[d], d, now), now)

\* C26: for a row without manual edit the overtime is the larger of the time
\* from the shift end of the row's date to the reference end (0 without a
\* reference end or before the shift end) and the worked seconds above the
\* standard shift (0 below it); it is 0 for a missing row and never negative.
C26_OvertimeIsLargerCandidate ==
    \A d \in Days :
        /\ ~records[d].exists => OvertimeNow(d) = 0
        /\ OvertimeNow(d) >= 0
        /\ (records[d].exists /\ ~records[d].is_manual_edit)
           => OvertimeNow(d)
                = Max(IF ReferenceEnd(records[d], d, now) = None THEN 0
                      ELSE Max(0, ReferenceEnd(records[d], d, now)
                                  - _shift_end_utc_for_ist_date(d)),
                      Max(0, get_attendance_worked_seconds(records[d], d, now)
                             - STANDARD_WORK_SECONDS))

\* A clock-in at 19:00 has stored one hour of overtime on the row it opened:
\* the reference end of a row Open today is now.
C26_OpenAfterShiftEnd ==
    /\ lastOp.op = "clock_in"
    /\ lastOp.result = "ok"
    /\ now = AtIst(Today, HM(19, 0))
    /\ IsOpen(records[Today])
    /\ ~records[Today].is_manual_edit
    /\ OvertimeNow(Today) = HM(1, 0)
    /\ records[Today].overtime_hours = HoursCenti(HM(1, 0))

\* C27 as stated: for a row with the manual-edit flag the overtime that the
\* read paths report, the overtime_seconds of get_attendance_status_meta, is
\* the overtime stored by the override, a stored 0 included.
C27_ManualOvertimeAuthoritative ==
    \A d \in Days :
        (records[d].exists /\ records[d].is_manual_edit)
        => get_attendance_status_meta(records[d], d, now).overtime_seconds
             = CentiToSeconds(records[d].overtime_hours)

\* An admin has marked a day present with overtime 0 and the default times
\* 09:00 to 18:30; the row stores overtime 0 and the reads report 30 minutes.
C27_ZeroOverrideRecomputed ==
    /\ lastOp.op = "mark_attendance"
    /\ \E d \in Days :
          /\ records[d].is_manual_edit
          /\ records[d].status = "present"
          /\ records[d].overtime_hours = 0
          /\ records[d].clock_out_time = AtIst(d, HM(18, 30))
          /\ get_attendance_status_meta(records[d], d, now).overtime_seconds = HM(0, 30)

\* The seconds that [a, b) and the break window of day d have in common.
BreakShare(a, b, d) ==
    Max(0, Min(b, _break_window_utc_for_ist_date(d)[2])
           - Max(a, _break_window_utc_for_ist_date(d)[1]))

\* The sum of f over the days of S.
RECURSIVE SumOverDays(_, _, _)
SumOverDays(S, a, b) ==
    IF S = {} THEN 0
    ELSE LET d == CHOOSE e \in S : TRUE
         IN  BreakShare(a, b, d) + SumOverDays(S \ {d}, a, b)

\* workedSeconds as C28 words it.
ElapsedLessBreaks(start, end) ==
    IF end <= start THEN 0
    ELSE (end - start)
         - SumOverDays({d \in Days : IstDate(start) <= d /\ d <= IstDate(end)}, start, end)

\* C28: the seconds a logout adds for a session from clock_in_time to now are
\* 0 when now is not later; otherwise the elapsed time less its overlap with
\* the break window of every office day from the start's to the end's; so
\* they are the elapsed time when no break is touched, 3 h from 10:00 to
\* 13:30, and always between 0 and the elapsed time.
C28_WorkedSecondsLessBreaks ==
    [][lastOp'.op = "logout"
       => \A d \in OpenRows(DB) :
             /\ records'[d].total_seconds - records[d].total_seconds
                  = ElapsedLessBreaks(records[d].clock_in_time, now)
             /\ records'[d].total_seconds - records[d].total_seconds >= 0
             /\ records'[d].total_seconds - records[d].total_seconds
                  <= Max(0, now - records[d].clock_in_time)
             /\ (\A e \in Days : BreakShare(records[d].clock_in_time, now, e) = 0)
                => records'[d].total_seconds - records[d].total_seconds
                     = Max(0, now - records[d].clock_in_time)
             /\ (records[d].clock_in_time = AtIst(d, HM(10, 0))
                 /\ now = AtIst(d, HM(13, 30)))
                => records'[d].total_seconds - records[d].total_seconds = HM(3, 0)]_vars

\* A logout at 13:30 has closed a session opened at 10:00 with three hours.
C28_TenToHalfPastOne ==
    /\ lastOp.op = "logout"
    /\ now = AtIst(0, HM(13, 30))
    /\ records[0].first_clock_in_time = AtIst(0, HM(10, 0))
    /\ records[0].clock_out_time = now
    /\ records[0].total_seconds = HM(3, 0)

\* The arguments C29 names for the row of date d: time of day of the effective
\* clock-in, time of day of the reference end, worked seconds.
ClassifierInputs(d) ==
    <<IF get_effective_clock_in_time(records[d]) = None THEN None
      ELSE IstTime(get_effective_clock_in_time(records[d])),
      IF IsOpen(records[d]) /\ d = Today THEN IstTime(now)
      ELSE IF records[d].clock_out_time = None THEN None
      ELSE IstTime(records[d].clock_out_time),
      get_attendance_worked_seconds(records[d], d, now)>>

\* The classifier called again on the row a first call has left.
ClassifiedAgain(d) ==
    determine_attendance_status(Classified(d).att, d,
                                get_attendance_worked_seconds(records[d], d, now), now)

\* C29 as stated: a call of the classifier leaves the row it is given as it
\* was; a second call answers the status and the half-day portion of the
\* first; and two rows with the same clock-in time of day, end time of day and
\* worked seconds get the same status and the same half-day portion.
C29_ClassifierIsPure ==
    /\ \A d \in Days :
          records[d].exists
          => /\ Classified(d).att = records[d]
             /\ ClassifiedAgain(d).status = Classified(d).status
             /\ ClassifiedAgain(d).att.half_day_type = Classified(d).att.half_day_type
    /\ \A d, e \in Days :
          (records[d].exists /\ records[e].exists
           /\ ClassifierInputs(d) = ClassifierInputs(e))
          => /\ Classified(d).status = Classified(e).status
             /\ Classified(d).att.half_day_type = Classified(e).att.half_day_type

\* The history has been read while today's row is Open with no half-day
\* portion stored, and the classifier it calls on the row writes first_half
\* on it.
C29_ReadWritesPortion ==
    /\ lastOp.op = "get_history"
    /\ IsOpen(records[Today])
    /\ ~records[Today].is_manual_edit
    /\ records[Today].half_day_type = "none"
    /\ lastOp.report[Today] = "halfday"
    /\ Classified(Today).att.half_day_type = "first_half"

\* The answers of clock_in that follow a write of a non-working row.
NonWorkingAnswers == {"Holiday", "Leave", "LeaveUnapproved"}

\* C30: a clock-in, clock-out or status request calls the notifier once for
\* every session its sweep closes and once more for its own successful
\* clock-in or clock-out, and every such call comes right after the commit of
\* the change it announces.
C30_NotifiedOnceAfterCommit ==
    [][(lastOp'.op \in {"clock_in", "clock_out", "get_active"}
        /\ lastOp'.result \notin NonWorkingAnswers)
       => /\ \A i \in DOMAIN lastOp'.events :
                lastOp'.events[i] = "notify"
                => i > 1 /\ lastOp'.events[i - 1] = "commit"
          /\ NotifyCount(lastOp'.events)
               = Cardinality(StaleRows)
                 + (IF lastOp'.op \in {"clock_in", "clock_out"} /\ lastOp'.result = "ok"
                    THEN 1 ELSE 0)
          /\ lastOp'.result = "ok" /\ lastOp'.op = "clock_in" => IsOpen(records'[Today])
          /\ lastOp'.result = "ok" /\ lastOp'.op = "clock_out"
             => \E d \in OpenRows(DB) : ~IsOpen(records'[d])]_vars

\* A clock-in after the break has closed the morning session in its sweep and
\* reopened the row: two commits, each followed by its notification.
C30_SweepAndClockInNotified ==
    /\ lastOp.op = "clock_in"
    /\ lastOp.result = "ok"
    /\ lastOp.swept = 1
    /\ lastOp.events = <<"commit", "notify", "commit", "notify">>
    /\ IsOpen(records[Today])
    /\ records[Today].total_seconds > 0

\* The instant at which a step has closed the session that was open on the
\* row of date d: the clock_out_time it wrote, or, when the same request has
\* reopened the row, the boundary its sweep closed the session at.
SessionClose(d) ==
    IF records'[d].clock_out_time # None THEN records'[d].clock_out_time
    ELSE Max(CrossedBoundary(records[d], d, now), records[d].clock_in_time)

\* C31: with no manual mark and no holiday or leave, a row starts with
\* total_seconds 0, every step that ends the row's open session adds the worked
\* seconds of that session from its clock-in to its close, every other step
\* leaves total_seconds alone (so it is the sum over the closed sessions of the
\* day), and the worked seconds reported for an Open row of today are that sum
\* plus the worked seconds from clock_in_time to now.
C31_TotalIsSumOfSessions ==
    [][/\ \A d \in Days :
             /\ (~records[d].exists /\ records'[d].exists)
                => records'[d].total_seconds = 0
             /\ (IsOpen(records[d]) /\ records'[d].clock_in_time # records[d].clock_in_time)
                => records'[d].total_seconds
                     = records[d].total_seconds
                       + calculate_work_seconds(records[d].clock_in_time, SessionClose(d))
             /\ (records[d].exists /\ records'[d].clock_in_time = records[d].clock_in_time)
                => records'[d].total_seconds = records[d].total_seconds
       /\ (lastOp'.op = "get_active" /\ IsOpen(records'[Today]))
          => lastOp'.worked_seconds
               = records'[Today].total_seconds
                 + calculate_work_seconds(records'[Today].clock_in_time, now)]_vars

\* The day was worked in two sessions, 09:15 to the 13:00 break start and
\* 14:00 to a clock-out at 18:00, and holds the sum of the two.
C31_TwoSessionsSummed ==
    /\ lastOp.op = "clock_out"
    /\ lastOp.result = "ok"
    /\ now = AtIst(0, HM(18, 0))
    /\ records[0].first_clock_in_time = AtIst(0, HM(9, 15))
    /\ records[0].clock_out_time = now
    /\ records[0].total_seconds
         = calculate_work_seconds(AtIst(0, HM(9, 15)), AtIst(0, HM(13, 0)))
           + calculate_work_seconds(AtIst(0, HM(14, 0)), AtIst(0, HM(18, 0)))
    /\ records[0].total_seconds = HM(7, 45)

\* C32: a row's first_clock_in_time, once set, is left as it is by every
\* clock-out, sweep, logout, idle-timeout close and resuming clock-in (every
\* request but an admin mark and a clock-in refused for a holiday or leave), and
\* the effective clock-in the classifier uses is that first_clock_in_time.
C32_FirstClockInKept ==
    [][\A d \in Days :
          (/\ records[d].exists
           /\ records[d].first_clock_in_time # None
           /\ lastOp'.op # "mark_attendance"
           /\ lastOp'.result \notin NonWorkingAnswers)
          => /\ records'[d].first_clock_in_time = records[d].first_clock_in_time
             /\ get_effective_clock_in_time(records'[d]) = records[d].first_clock_in_time]_vars

\* A clock-in at 14:00 has resumed the day that was first opened at 09:15.
C32_ResumedKeepsFirst ==
    /\ lastOp.op = "clock_in"
    /\ lastOp.result = "ok"
    /\ now = AtIst(0, HM(14, 0))
    /\ records[0].clock_in_time = now
    /\ records[0].first_clock_in_time = AtIst(0, HM(9, 15))
    /\ records[0].total_seconds > 0
    /\ get_effective_clock_in_time(records[0]) = AtIst(0, HM(9, 15))

\* C33 as stated: right after a request that touches the employee's
\* attendance (clock-in, clock-out, the active read, logout, an admin mark) no
\* row is Open with a clock-in of an earlier date, or with a clock-in before the
\* break start or the shift end of its date when that boundary is at or before
\* now.
C33_StaleClosedByNextRequest ==
    lastOp.op \in AttendanceOps
    => \A d \in Days :
          IsOpen(records[d])
          => /\ IstDate(records[d].clock_in_time) >= Today
             /\ ~(/\ records[d].clock_in_time < _break_window_utc_for_ist_date(d)[1]
                  /\ _break_window_utc_for_ist_date(d)[1] <= now)
             /\ ~(/\ records[d].clock_in_time < _shift_end_utc_for_ist_date(d)
                  /\ _shift_end_utc_for_ist_date(d) <= now)

\* An admin mark of another date has been stored while the session the
\* employee opened before the break start is still Open after it.
C33_MarkLeavesStaleOpen ==
    /\ lastOp.op = "mark_attendance"
    /\ lastOp.result = "ok"
    /\ \E d \in Days :
          /\ IsOpen(records[d])
          /\ ~records[d].is_manual_edit
          /\ records[d].clock_in_time < _break_window_utc_for_ist_date(d)[1]
          /\ _break_window_utc_for_ist_date(d)[1] <= now

\* C34 as stated: a step in which a handler unsubscribes after its peer has
\* gone, or in which a failed send is cleaned up, leaves every other connection
\* that is registered and alive registered: the employee's connection and every
\* stream connection.
C34_OnlyTheDeadConnectionRemoved ==
    [][(lastOp'.op = "disconnect" \/ (lastOp'.op = "notify" /\ lastOp'.result = "failed"))
       => /\ \A c \in UserConns :
                (ws.active_connections[Employee] = c /\ ws.socket[c] = "connected")
                => ws'.active_connections[Employee] = c
          /\ \A c \in StreamConns :
                (c \in ws.stream_connections /\ ws.socket[c] = "connected")
                => c \in ws'.stream_connections]_vars

\* A send to the employee's old connection has failed and, before its cleanup
\* runs, a newer connection has been registered for the employee and is alive:
\* the cleanup, disconnect(user_id), is about to unregister the newer one.
C34_NewerRegisteredDuringFailedSend ==
    /\ lastOp.op = "connect"
    /\ lastOp.result = "user"
    /\ \E i \in DOMAIN ws.tasks : ws.tasks[i].pc = "failed"
    /\ ws.active_connections[Employee] # NoConn
    /\ ws.socket[ws.active_connections[Employee]] = "connected"
    /\ disconnect(ws, Employee).active_connections[Employee] = NoConn

\* C35: the seconds a logout adds for the session from clock_in_time to now
\* are, for every instant b between the two, the worked seconds from
\* clock_in_time to b plus the worked seconds from b to now: a close at b and a
\* resume at b would give the day the same total.
C35_WorkedSecondsAdditive ==
    [][lastOp'.op = "logout"
       => \A d \in OpenRows(DB) :
             \A b \in WorkInstants :
                (records[d].clock_in_time <= b /\ b <= now)
                => records'[d].total_seconds - records[d].total_seconds
                     = calculate_work_seconds(records[d].clock_in_time, b)
                       + calculate_work_seconds(b, now)]_vars

\* A logout at 18:00 has closed a session opened at 10:00: seven hours, the
\* three up to 13:30 and the four after it.
C35_SplitInsideBreak ==
    /\ lastOp.op = "logout"
    /\ now = AtIst(0, HM(18, 0))
    /\ records[0].first_clock_in_time = AtIst(0, HM(10, 0))
    /\ records[0].clock_out_time = now
    /\ records[0].total_seconds = HM(7, 0)
    /\ calculate_work_seconds(AtIst(0, HM(10, 0)), AtIst(0, HM(13, 30))) = HM(3, 0)
    /\ calculate_work_seconds(AtIst(0, HM(13, 30)), now) = HM(4, 0)

\* C36: a step that closes an Open row writes a clock_out_time that is not
\* before the session's clock_in_time and does not lower total_seconds; an
\* idle-timeout close asked for last_seen_at + timeout closes at that instant or
\* at the clock-in if that is later, and a sweep whose boundary precedes the
\* clock-in closes at the clock-in; a close at the clock-in adds 0 seconds.
C36_NeverClosedBeforeClockIn ==
    [][\A d \in Days :
          (/\ IsOpen(records[d])
           /\ records'[d].clock_out_time # None
           /\ lastOp'.op # "mark_attendance"
           /\ lastOp'.result \notin NonWorkingAnswers)
          => /\ records'[d].clock_out_time >= records[d].clock_in_time
             /\ records'[d].total_seconds >= records[d].total_seconds
             /\ records'[d].clock_out_time = records[d].clock_in_time
                => records'[d].total_seconds = records[d].total_seconds
             /\ lastOp'.op = "get_current_user"
                => \E seen \in SeenTimes :
                      /\ now - seen > SESSION_IDLE_TIMEOUT
                      /\ records'[d].clock_out_time
                           = Max(seen + SESSION_IDLE_TIMEOUT, records[d].clock_in_time)
             /\ (/\ lastOp'.op = "get_active"
                 /\ CrossedBoundary(records[d], d, now) < records[d].clock_in_time)
                => records'[d].clock_out_time = records[d].clock_in_time]_vars

\* The idle check of a session last seen at 09:15 has closed a session that
\* was opened at 14:00: it is closed at 14:00 with nothing added.
C36_IdleCloseAtClockIn ==
    /\ lastOp.op = "get_current_user"
    /\ lastOp.result = "idle"
    /\ lastOp.swept = 1
    /\ records[0].exists
    /\ ~records[0].is_manual_edit
    /\ records[0].first_clock_in_time = AtIst(0, HM(14, 0))
    /\ records[0].clock_out_time = AtIst(0, HM(14, 0))
    /\ records[0].total_seconds = 0

\* The row of date d as a sweep of the current rows at instant t leaves it.
SweptAt(d, t) == auto_close_open_attendances_for_user(DB, t).db.records[d]

\* The fields of a row that C37 compares.
ClosedState(att) ==
    <<att.clock_in_time, att.clock_out_time, att.total_seconds, att.status>>

\* C37 as stated: a sweep that finds a row Open at or after the shift end of
\* the row's date leaves it with the clock_out_time, total_seconds and status
\* that a sweep at that shift end itself would have left, whenever the session
\* was opened.
C37_SweepTimeIrrelevant ==
    [][lastOp'.op = "get_active"
       => \A d \in OpenRows(DB) :
             now >= _shift_end_utc_for_ist_date(d)
             => ClosedState(records'[d])
                  = ClosedState(SweptAt(d, _shift_end_utc_for_ist_date(d)))]_vars

\* C37: the same for a session that was opened at or after the break start
\* and before the shift end of its date.
C37_AfternoonSweepTimeIrrelevant ==
    [][lastOp'.op = "get_active"
       => \A d \in OpenRows(DB) :
             (/\ now >= _shift_end_utc_for_ist_date(d)
              /\ records[d].clock_in_time >= _break_window_utc_for_ist_date(d)[1]
              /\ records[d].clock_in_time < _shift_end_utc_for_ist_date(d))
             => /\ records'[d].clock_out_time = _shift_end_utc_for_ist_date(d)
                /\ ClosedState(records'[d])
                     = ClosedState(SweptAt(d, _shift_end_utc_for_ist_date(d)))]_vars

\* A read on the next day has swept a session that was opened at 14:00 and
\* closed it at 18:00 of its own date.
C37_AfternoonSweptNextDay ==
    /\ lastOp.op = "get_active"
    /\ lastOp.swept = 1
    /\ Today = 1
    /\ ~records[0].is_manual_edit
    /\ records[0].first_clock_in_time = AtIst(0, HM(14, 0))
    /\ records[0].clock_out_time = AtIst(0, HM(18, 0))
    /\ records[0].total_seconds = HM(4, 0)

\* C38 as stated: whenever a task timer is running, an attendance row of the
\* employee is Open.
C38_RunningTimerMeansClockedIn ==
    HasRunning(timers) => OpenRows(DB) # {}

\* An admin mark of absent has wiped today's Open row and the employee's
\* task timer is still running.
C38_MarkLeavesTimerRunning ==
    /\ lastOp.op = "mark_attendance"
    /\ lastOp.result = "ok"
    /\ HasRunning(timers)
    /\ OpenRows(DB) = {}
    /\ records[Today].exists
    /\ records[Today].status = "absent"
    /\ records[Today].is_manual_edit

LockReasonOf(result) ==
    CASE result = "Holiday" -> "holiday"
      [] result = "Leave" -> "leave"
      [] result = "LeaveUnapproved" -> "unapproved_leave"
      [] result = "BreakTime" -> "break"
      [] OTHER -> "none"

\* What the active read would report in the current state.
ActiveNow == ActiveAnswer(AfterSweep, AfterSweep.db.records[Today], Today)

\* C40: a clock-in is refused for a holiday, a leave, an unapproved leave or
\* the break exactly when the active read at the same instant reports the
\* corresponding lock reason, and the active read reports holiday before
\* leave before break.
C40_LockReasonMatchesClockIn ==
    [][/\ lastOp'.op = "clock_in"
          => LockReasonOf(lastOp'.result) = ActiveNow.lock_reason
       /\ lastOp'.op = "get_active"
          => /\ lastOp'.lock_reason = ActiveNow.lock_reason
             /\ _is_holiday_for_user(Today) => lastOp'.lock_reason = "holiday"
             /\ (~_is_holiday_for_user(Today) /\ _leave_status_for_date(Today) # "none")
                => lastOp'.lock_reason \in {"leave", "unapproved_leave"}
             /\ (/\ ~_is_holiday_for_user(Today)
                 /\ _leave_status_for_date(Today) = "none")
                => lastOp'.lock_reason
                     = IF BREAK_START_HOUR * 3600 <= IstTime(now)
                          /\ IstTime(now) < BREAK_END_HOUR * 3600
                       THEN "break" ELSE "none"]_vars

\* A clock-in at 13:00 on a holiday that is also an approved leave day has
\* been refused for the holiday, the reason the active read reports.
C40_HolidayBeforeLeaveAndBreak ==
    /\ lastOp.op = "clock_in"
    /\ lastOp.result = "Holiday"
    /\ leave = "approved"
    /\ Today = LeaveDay
    /\ IstTime(now) = HM(13, 0)
    /\ ActiveNow.lock_reason = "holiday"

====
